---------------------------- MODULE Spec2Model ----------------------------
(***************************************************************************)
(* A model of the project manager of squiggle-lang (SqProject) and of the  *)
(* mixed-distribution builder.                                             *)
(*                                                                         *)
(* SqProject (src/packages/squiggle-lang/src/public/SqProject/index.ts)    *)
(* owns a map from sourceId to ProjectItem, the stdLib, the environment    *)
(* and an optional import resolver.  ProjectItem.ts and Topology.ts are    *)
(* not among the sources; the definitions that stand for them are modelled *)
(* from the specification and say so.                                      *)
(***************************************************************************)
EXTENDS Integers, Sequences, FiniteSets, TLC

(***************************************************************************)
(* Bounds of the model.                                                    *)
(***************************************************************************)
\* a source is evaluated at most MaxEvals times per revision in the model
MaxEvals == 2
\* the deepest nesting of loadImportsRecursively calls the model follows
MaxDepth == 4

\* the sourceIds of the model
Ids == {"a", "b", "c"}
\* the order in which the caller first adds them to the project
Rank(id) == CASE id = "a" -> 1 [] id = "b" -> 2 [] OTHER -> 3

VARIABLES
    order,        \* items: the keys of the Map, in insertion order
    source,       \* ProjectItem.source, per sourceId
    contin,       \* ProjectItem.continues
    imports,      \* ProjectItem.imports: undefined, Ok(list) or Err
    result,       \* ProjectItem.result: undefined, Ok or Err(error)
    bindings,     \* ProjectItem.bindings: undefined or set
    resolver,     \* whether the project was created with a resolver
    second,       \* a second runIds call that overlaps the first
    environment,  \* SqProject.environment
    stdLib,       \* SqProject.stdLib
    rpc,          \* position of the runIds call: "idle", "loop", "await"
    rq,           \* the sourceIds runIds still has to visit
    rerr,         \* the local variable `error` of runIds
    rdone,        \* the sourceIds the current runIds call has visited
    lstack,       \* the active loadImportsRecursively calls, outermost first
    raised,       \* the exception the call raised to its caller
    evalCount,    \* evaluations of the source since its last clean
    mix,          \* the mixed-distribution builder: its arguments and result
    call,         \* a library function: its name, arguments and outcome
    last          \* the call or step just made: its name, argument, effect

vars == << order, source, contin, imports, result, bindings, resolver, second,
           environment, stdLib, rpc, rq, rerr, rdone, lstack, raised,
           evalCount, mix, call, last >>

(***************************************************************************)
(* Values.                                                                 *)
(***************************************************************************)
Range(s) == { s[i] : i \in DOMAIN s }

\* An error value.  kind says what failed, at names the source whose run or
\* link created the error object, dep the dependency a "missing" error names.
MkError(kind, at, dep) == [kind |-> kind, at |-> at, dep |-> dep]
NoErr == MkError("none", "none", "none")
getNeedToRunError(at) == MkError("needToRun", at, "none")
getMissingDependencyError(at, id) == MkError("missing", at, id)

NoResult == [st |-> "none", err |-> NoErr]
OkResult == [st |-> "ok", err |-> NoErr]
ErrResult(e) == [st |-> "err", err |-> e]

NoImports == [st |-> "none", ids |-> << >>, err |-> NoErr]
OkImports(ids) == [st |-> "ok", ids |-> ids, err |-> NoErr]
ErrImports(e) == [st |-> "err", ids |-> << >>, err |-> e]

\* A source text, reduced to what the project manager sees of it: the import
\* statements it holds and what becomes of parsing and evaluating it.
\*   kind "ok"     parses and evaluates to a value
\*   kind "fail"   parses, and its evaluation raises a runtime error
\*   kind "syntax" does not parse
MkText(imp, kind) == [imp |-> imp, kind |-> kind]
NoText == MkText(<< >>, "absent")

\* The texts and continues lists the caller gives to each source.  A source
\* imports and continues only sources that are added before it, so the
\* dependency graph the caller builds has no cycle.
TextsOf(id) ==
    CASE id = "a" -> { MkText(<< >>, "ok"), MkText(<< >>, "fail"),
                       MkText(<< >>, "syntax") }
      [] id = "b" -> { MkText(<< >>, "ok"), MkText(<< >>, "fail"),
                       MkText(<< "a" >>, "ok") }
      [] OTHER    -> { MkText(<< >>, "ok"), MkText(<< "b" >>, "ok") }
ContinuesOf(id) ==
    CASE id = "a" -> { << >> }
      [] id = "b" -> { << >>, << "a" >> }
      [] OTHER    -> { << >>, << "a" >>, << "b" >> }

Present == Range(order)

(***************************************************************************)
(* ProjectItem: the fields of one source and the methods that reset them.  *)
(***************************************************************************)
\* ProjectItem.parseImports(resolver): the result of parsing the import
\* statements of a text; any import is an error when there is no resolver.
ParsedImports(id, text, res) ==
    IF text.kind = "syntax" THEN ErrImports(MkError("parse", id, "none"))
    ELSE IF text.imp # << >> /\ ~res
        THEN ErrImports(MkError("noResolver", id, "none"))
        ELSE OkImports(text.imp)

\* The imports field after parseImports: parsed once, then cached.
ImportsAfterParse(imp, id) ==
    IF imp[id].st # "none" THEN imp[id]
    ELSE ParsedImports(id, source[id], resolver)

\* ProjectItem.getDependencies, over a given imports field: the continues
\* and the resolved imports.
DepSeqOf(imp, con, id) ==
    con[id] \o (IF imp[id].st = "ok" THEN imp[id].ids ELSE << >>)
DepSeq(id) == DepSeqOf(imports, contin, id)
getDependencies(id) == Range(DepSeq(id))

(***************************************************************************)
(* Topology: dependents and run order.                                     *)
(***************************************************************************)
RECURSIVE DependentsClosure(_, _, _, _)
DependentsClosure(imp, con, present, S) ==
    LET N == S \cup { x \in present :
                        \E d \in S : d \in Range(DepSeqOf(imp, con, x)) }
    IN IF N = S THEN S ELSE DependentsClosure(imp, con, present, N)

\* Topology.traverseDependents: every source that depends on id, directly or
\* through others; id itself is not acted on.
traverseDependents(imp, con, present, id) ==
    DependentsClosure(imp, con, present, {id}) \ {id}

getDependents(id) ==
    { x \in Present : id \in getDependencies(x) }

RECURSIVE DependenciesClosure(_)
DependenciesClosure(S) ==
    LET N == S \cup { d \in Present : \E x \in S : d \in getDependencies(x) }
    IN IF N = S THEN S ELSE DependenciesClosure(N)

\* every source id depends on, directly or through others
Upstream(id) ==
    DependenciesClosure({ d \in Present : d \in getDependencies(id) })

\* Depth-first search: dependencies first, each source once, sources that
\* are not in the project skipped.
RECURSIVE Dfs(_, _), DfsAll(_, _)
Dfs(id, acc) ==
    IF id \in acc.seen \/ id \notin Present THEN acc
    ELSE LET a1 == DfsAll(DepSeq(id), [acc EXCEPT !.seen = @ \cup {id}])
         IN [a1 EXCEPT !.out = Append(@, id)]
DfsAll(ids, acc) ==
    IF ids = << >> THEN acc ELSE DfsAll(Tail(ids), Dfs(Head(ids), acc))

getRunOrder == DfsAll(order, [seen |-> {}, out |-> << >>]).out
getRunOrderFor(id) == Dfs(id, [seen |-> {}, out |-> << >>]).out


(***************************************************************************)
(* SqProject: the operations that change the dependency graph.             *)
(***************************************************************************)
NoCall == [op |-> "none", id |-> "none", cleared |-> {}]

\* no second runIds call: its position ("idle", "loop", "await", "done"),
\* the sourceIds it still has to visit, its local variable `error`, and the
\* step it made last
NoSecond ==
    [pc |-> "idle", rq |-> << >>, rerr |-> NoErr,
     note |-> [op |-> "none", id |-> "none"]]

\* no call is in progress and the caller has taken the outcome of the last
Idle == rpc = "idle" /\ lstack = << >> /\ last = NoCall

\* what an operation leaves of the results it found cached
Cleared == { x \in Ids : result[x].st # "none" /\ result'[x].st = "none" }
Note(op, id) == last' = [op |-> op, id |-> id, cleared |-> Cleared]

\* ProjectItem.clean on every source of S: result and bindings are dropped
CleanItems(S) ==
    /\ result' = [x \in Ids |-> IF x \in S THEN NoResult ELSE result[x]]
    /\ bindings' = [x \in Ids |-> IF x \in S THEN "none" ELSE bindings[x]]
    /\ evalCount' = [x \in Ids |-> IF x \in S THEN 0 ELSE evalCount[x]]

\* a getItem that throws nothing for a sourceId that is not in the project
NotFoundIgnored(op, id) ==
    /\ id \notin Present
    /\ raised' = "none"
    /\ UNCHANGED << order, source, contin, imports, result, bindings,
                    resolver, second, environment, stdLib, rpc, rq, rerr,
                    rdone, lstack, evalCount, mix, call >>
    /\ last' = [op |-> op, id |-> id, cleared |-> {}]

\* getItem throws for a sourceId that is not in the project
NotFound(op, id) ==
    /\ id \notin Present
    /\ raised' = "notFound"
    /\ UNCHANGED << order, source, contin, imports, result, bindings,
                    resolver, second, environment, stdLib, rpc, rq, rerr, rdone,
                    lstack, evalCount, mix, call >>
    /\ Note(op, id)

UnchangedRun == UNCHANGED << rpc, rq, rerr, rdone, lstack >>
UnchangedSettings ==
    UNCHANGED << resolver, second, environment, stdLib, mix, call >>

\* setEnvironment that also drops the results computed under the old one
setEnvironmentAndClean(e) ==
    /\ Idle
    /\ environment' = e
    /\ CleanItems(Present)
    /\ raised' = "none"
    /\ UNCHANGED << order, source, contin, imports, resolver, second, stdLib,
                    mix, call >>
    /\ UNCHANGED << rpc, rq, rerr, rdone, lstack >>
    /\ last' = [op |-> "setEnvironment", id |-> "none", cleared |-> Cleared]

setEnvironment(e) ==
    /\ Idle
    /\ environment' = e
    /\ raised' = "none"
    /\ UNCHANGED << order, source, contin, imports, result, bindings,
                    resolver, second, stdLib, evalCount, mix, call >>
    /\ UnchangedRun
    /\ Note("setEnvironment", "none")

setStdLib(v) ==
    /\ Idle
    /\ stdLib' = v
    /\ raised' = "none"
    /\ UNCHANGED << order, source, contin, imports, result, bindings,
                    resolver, second, environment, evalCount, mix, call >>
    /\ UnchangedRun
    /\ Note("setStdLib", "none")

\* touchDependents: clean every transitive dependent of id
touchDependents(imp, con, present, id) ==
    traverseDependents(imp, con, present, id)

touchSource(id) ==
    /\ Idle
    /\ \/ NotFound("touchSource", id)
       \/ /\ id \in Present
          /\ imports' = [imports EXCEPT ![id] = NoImports]
          /\ CleanItems({id} \cup touchDependents(imports', contin, Present, id))
          /\ raised' = "none"
          /\ UNCHANGED << order, source, contin >>
          /\ UnchangedSettings /\ UnchangedRun
          /\ Note("touchSource", id)

\* The project fields after setSource(id, t): the item gets the text and
\* loses its parsed imports, its result and its bindings, or a new item is
\* added; then the dependents are cleaned.  imp is the imports field of id
\* at the end of the step (the caller may parse the imports right away).
SetSourceFields(id, t, imp) ==
    /\ order' = IF id \in Present THEN order ELSE Append(order, id)
    /\ source' = [source EXCEPT ![id] = t]
    /\ imports' = [imports EXCEPT ![id] = imp]
    /\ CleanItems({id} \cup
            touchDependents([imports EXCEPT ![id] = NoImports], contin,
                            Present \cup {id}, id))
    /\ UNCHANGED contin

\* setSource without its call of touchDependents
setSourceOnly(id, t) ==
    /\ Idle
    /\ (id \in Present \/ \A x \in Present : Rank(x) < Rank(id))
    /\ order' = IF id \in Present THEN order ELSE Append(order, id)
    /\ source' = [source EXCEPT ![id] = t]
    /\ imports' = [imports EXCEPT ![id] = NoImports]
    /\ CleanItems({id})
    /\ raised' = "none"
    /\ UNCHANGED contin
    /\ UNCHANGED << resolver, second, environment, stdLib, mix, call >>
    /\ UNCHANGED << rpc, rq, rerr, rdone, lstack >>
    /\ last' = [op |-> "setSource", id |-> id, cleared |-> Cleared]

setSource(id, t) ==
    /\ Idle
    /\ (id \in Present \/ \A x \in Present : Rank(x) < Rank(id))
    /\ SetSourceFields(id, t, NoImports)
    /\ raised' = "none"
    /\ UnchangedSettings /\ UnchangedRun
    /\ Note("setSource", id)

removeSource(id) ==
    /\ Idle
    /\ order' = SelectSeq(order, LAMBDA x : x # id)
    /\ source' = [source EXCEPT ![id] = NoText]
    /\ contin' = [contin EXCEPT ![id] = << >>]
    /\ imports' = [imports EXCEPT ![id] = NoImports]
    /\ CleanItems({id} \cup touchDependents(imports, contin, Present, id))
    /\ raised' = "none"
    /\ UnchangedSettings /\ UnchangedRun
    /\ Note("removeSource", id)

clean(id) ==
    /\ Idle
    /\ \/ NotFound("clean", id)
       \/ /\ id \in Present
          /\ CleanItems({id})
          /\ raised' = "none"
          /\ UNCHANGED << order, source, contin, imports >>
          /\ UnchangedSettings /\ UnchangedRun
          /\ Note("clean", id)

cleanAll ==
    /\ Idle
    /\ CleanItems(Present)
    /\ raised' = "none"
    /\ UNCHANGED << order, source, contin, imports >>
    /\ UnchangedSettings /\ UnchangedRun
    /\ Note("cleanAll", "none")

setContinues(id, continues) ==
    /\ Idle
    /\ \/ NotFound("setContinues", id)
       \/ /\ id \in Present
          /\ contin' = [contin EXCEPT ![id] = continues]
          /\ CleanItems({id} \cup touchDependents(imports, contin', Present, id))
          /\ raised' = "none"
          /\ UNCHANGED << order, source, imports >>
          /\ UnchangedSettings /\ UnchangedRun
          /\ Note("setContinues", id)

parseImports(id) ==
    /\ Idle
    /\ \/ NotFound("parseImports", id)
       \/ /\ id \in Present
          /\ imports' = [imports EXCEPT ![id] = ImportsAfterParse(imports, id)]
          /\ raised' = "none"
          /\ UNCHANGED << order, source, contin, result, bindings, evalCount >>
          /\ UnchangedSettings /\ UnchangedRun
          /\ Note("parseImports", id)

\* getResult(id) and the other getters read the item and change nothing
getResult(id) ==
    /\ Idle
    /\ \/ NotFound("getResult", id)
       \/ /\ id \in Present
          /\ raised' = "none"
          /\ UNCHANGED << order, source, contin, imports, result, bindings,
                          evalCount >>
          /\ UnchangedSettings /\ UnchangedRun
          /\ Note("getResult", id)

\* the getters that go through getItem (lines 80-82, 127-144, 176-189)
Getters == {"getContinues", "getDependencies", "getBindings", "getImportIds"}

get(op, id) ==
    /\ Idle
    /\ \/ NotFound(op, id)
       \/ /\ id \in Present
          /\ raised' = "none"
          /\ UNCHANGED << order, source, contin, imports, result, bindings,
                          evalCount >>
          /\ UnchangedSettings /\ UnchangedRun
          /\ Note(op, id)

\* getSource(id), lines 115-117: this.items.get(sourceId)?.source, which
\* throws for no sourceId
getSource(id) ==
    /\ Idle
    /\ raised' = "none"
    /\ UNCHANGED << order, source, contin, imports, result, bindings,
                    evalCount >>
    /\ UnchangedSettings /\ UnchangedRun
    /\ Note("getSource", id)

\* getResultOption / getInternalResult: what getResult reports
getInternalResult(id) ==
    IF result[id].st = "none" THEN ErrResult(getNeedToRunError(id))
    ELSE result[id]

(***************************************************************************)
(* SqProject: linking and running.                                         *)
(***************************************************************************)
LinkOk == [ok |-> TRUE, err |-> NoErr, parsed |-> TRUE]
LinkErr(e, parsed) == [ok |-> FALSE, err |-> e, parsed |-> parsed]

\* the first loop without its checks of the continued sources
MergeContinuesUnchecked(sourceId, continues) == NoErr

\* buildInitialBindings, first loop: the error of the first continue that is
\* missing, has no bindings or has a failed result; NoErr if there is none
RECURSIVE MergeContinues(_, _)
MergeContinues(sourceId, continues) ==
    IF continues = << >> THEN NoErr
    ELSE LET continueId == Head(continues) IN
         IF continueId \notin Present
            THEN getMissingDependencyError(sourceId, continueId)
         ELSE IF bindings[continueId] = "none"
            THEN getNeedToRunError(sourceId)
         ELSE IF getInternalResult(continueId).st # "ok"
            THEN getInternalResult(continueId).err
         ELSE MergeContinues(sourceId, Tail(continues))

\* the second loop without its test of a missing import
RECURSIVE MergeImportsPresent(_, _)
MergeImportsPresent(sourceId, importIds) ==
    IF importIds = << >> THEN NoErr
    ELSE LET importId == Head(importIds) IN
         IF bindings[importId] = "none"
            THEN getNeedToRunError(sourceId)
         ELSE MergeImportsPresent(sourceId, Tail(importIds))

\* buildInitialBindings, second loop: the error of the first import that is
\* missing or has no bindings; NoErr if there is none
RECURSIVE MergeImports(_, _)
MergeImports(sourceId, importIds) ==
    IF importIds = << >> THEN NoErr
    ELSE LET importId == Head(importIds) IN
         IF importId \notin Present
            THEN getMissingDependencyError(sourceId, importId)
         ELSE IF bindings[importId] = "none"
            THEN getNeedToRunError(sourceId)
         ELSE MergeImports(sourceId, Tail(importIds))

\* buildInitialBindings(sourceId): Ok, or the error of the link; parsed says
\* whether parseImports(sourceId) was reached
\* buildInitialBindings without the return of lines 225-228: imports that
\* did not parse are taken as no imports
buildInitialBindingsAnyImports(sourceId) ==
    LET cerr == MergeContinues(sourceId, contin[sourceId])
        rImports == ImportsAfterParse(imports, sourceId)
    IN IF cerr # NoErr THEN LinkErr(cerr, FALSE)
       ELSE IF rImports.st # "ok" THEN [LinkOk EXCEPT !.parsed = TRUE]
       ELSE IF MergeImports(sourceId, rImports.ids) # NoErr
            THEN LinkErr(MergeImports(sourceId, rImports.ids), TRUE)
       ELSE LinkOk

buildInitialBindings(sourceId) ==
    LET cerr == MergeContinues(sourceId, contin[sourceId])
        rImports == ImportsAfterParse(imports, sourceId)
    IN IF cerr # NoErr THEN LinkErr(cerr, FALSE)
       ELSE IF rImports.st # "ok" THEN LinkErr(rImports.err, TRUE)
       ELSE IF MergeImports(sourceId, rImports.ids) # NoErr
            THEN LinkErr(MergeImports(sourceId, rImports.ids), TRUE)
       ELSE LinkOk

\* ProjectItem.run: the result of evaluating the text of sourceId
Evaluated(sourceId) ==
    CASE source[sourceId].kind = "ok" -> OkResult
      [] source[sourceId].kind = "fail" ->
            ErrResult(MkError("runtime", sourceId, "none"))
      [] OTHER -> ErrResult(MkError("parse", sourceId, "none"))

\* runIds moves on to the next sourceId, or returns after the last one
\* and with it the local variables of the call are gone
Advance(e) ==
    /\ rq' = Tail(rq)
    /\ rerr' = IF Tail(rq) = << >> THEN NoErr ELSE e
    /\ rdone' = IF Tail(rq) = << >> THEN {} ELSE rdone \cup {Head(rq)}
    /\ rpc' = IF Tail(rq) = << >> THEN "idle" ELSE "loop"

UnchangedGraph == UNCHANGED << order, source, contin >>

\* runIds without its test of the cached result: the source is evaluated
\* although it has one
RunCachedAgain(sourceId) ==
    /\ result[sourceId].st # "none"
    /\ evalCount[sourceId] < MaxEvals
    /\ result' = [result EXCEPT ![sourceId] = Evaluated(sourceId)]
    /\ evalCount' = [evalCount EXCEPT ![sourceId] = @ + 1]
    /\ UNCHANGED << imports, bindings >>
    /\ Advance(rerr)
    /\ Note("cached", sourceId)

\* runIds, lines 262-269: the source has a cached result
RunCached(sourceId) ==
    /\ result[sourceId].st # "none"
    /\ UNCHANGED << imports, result, bindings, evalCount >>
    /\ Advance(IF result[sourceId].st = "err" THEN result[sourceId].err
               ELSE rerr)
    /\ Note("cached", sourceId)

\* runIds, lines 271-274: an earlier source of this run has failed
RunFailed(sourceId) ==
    /\ result[sourceId].st = "none"
    /\ rerr # NoErr
    /\ result' = [result EXCEPT ![sourceId] = ErrResult(rerr)]
    /\ UNCHANGED << imports, bindings, evalCount >>
    /\ Advance(rerr)
    /\ Note("failRun", sourceId)

\* a failed link whose error is not stored as the result of the source
RunLinkFailDropped(sourceId) ==
    /\ result[sourceId].st = "none"
    /\ rerr = NoErr
    /\ ~buildInitialBindings(sourceId).ok
    /\ UNCHANGED << imports, result, bindings, evalCount >>
    /\ Advance(NoErr)
    /\ Note("linkFail", sourceId)

\* runIds, line 276, doLinkAndRun when the link fails
RunLinkFail(sourceId) ==
    /\ result[sourceId].st = "none"
    /\ rerr = NoErr
    /\ ~buildInitialBindings(sourceId).ok
    /\ imports' = IF buildInitialBindings(sourceId).parsed
                  THEN [imports EXCEPT
                          ![sourceId] = ImportsAfterParse(imports, sourceId)]
                  ELSE imports
    /\ result' = [result EXCEPT
                    ![sourceId] = ErrResult(buildInitialBindings(sourceId).err)]
    /\ UNCHANGED << bindings, evalCount >>
    /\ Advance(buildInitialBindings(sourceId).err)
    /\ Note("linkFail", sourceId)

\* runIds, line 276, doLinkAndRun when the link succeeds: the evaluation of
\* the source starts and runIds waits for it
RunLinkOk(sourceId) ==
    /\ result[sourceId].st = "none"
    /\ rerr = NoErr
    /\ buildInitialBindings(sourceId).ok
    /\ evalCount[sourceId] < MaxEvals
    /\ imports' = [imports EXCEPT
                     ![sourceId] = ImportsAfterParse(imports, sourceId)]
    /\ rpc' = "await"
    /\ UNCHANGED << result, bindings, evalCount, rerr, rq, rdone >>
    /\ Note("evalStart", sourceId)

runIdsStep ==
    /\ rpc = "loop"
    /\ \/ RunCached(Head(rq))
       \/ RunFailed(Head(rq))
       \/ RunLinkFail(Head(rq))
       \/ RunLinkOk(Head(rq))
    /\ raised' = "none"
    /\ UnchangedGraph /\ UnchangedSettings
    /\ UNCHANGED lstack

\* the evaluation ends: ProjectItem.run stores the result, and runIds goes
\* on after its await (lines 277-280)
runIdsResume ==
    /\ rpc = "await"
    /\ LET sourceId == Head(rq) IN
        /\ result' = [result EXCEPT ![sourceId] = Evaluated(sourceId)]
        /\ bindings' = [bindings EXCEPT
              ![sourceId] = IF Evaluated(sourceId).st = "ok" THEN "set"
                            ELSE bindings[sourceId]]
        /\ evalCount' = [evalCount EXCEPT ![sourceId] = @ + 1]
        /\ Note("evalDone", sourceId)
    /\ Advance(IF Evaluated(Head(rq)).st = "err"
               THEN Evaluated(Head(rq)).err ELSE rerr)
    /\ raised' = "none"
    /\ UNCHANGED imports
    /\ UnchangedGraph /\ UnchangedSettings
    /\ UNCHANGED lstack

\* runIds is entered with a run order
StartRunIds(sourceIds) ==
    /\ rq' = sourceIds
    /\ rerr' = NoErr
    /\ rdone' = {}
    /\ rpc' = IF sourceIds = << >> THEN "idle" ELSE "loop"

\* a call that raises: nothing of the project changes
Raise(what) ==
    /\ raised' = what
    /\ UNCHANGED << rpc, rq, rerr, rdone >>

runAll ==
    /\ Idle
    /\ StartRunIds(getRunOrder)
    /\ raised' = "none"
    /\ UNCHANGED << imports, result, bindings, evalCount, lstack >>
    /\ UnchangedGraph /\ UnchangedSettings
    /\ Note("runAll", "none")

run(sourceId) ==
    /\ Idle
    /\ IF sourceId \notin Present THEN Raise("notFound")
       ELSE StartRunIds(getRunOrderFor(sourceId)) /\ raised' = "none"
    /\ UNCHANGED << imports, result, bindings, evalCount, lstack >>
    /\ UnchangedGraph /\ UnchangedSettings
    /\ Note("run", sourceId)

(***************************************************************************)
(* SqProject: loadImportsRecursively and runWithImports.                   *)
(*                                                                         *)
(* lstack holds one frame per active call of loadImportsRecursively: the   *)
(* source the call was made for and the imports it still has to load.      *)
(***************************************************************************)
\* the texts loadSource returns for a sourceId
LoadTextsOf(id) ==
    CASE id = "a" -> { MkText(<< >>, "ok"), MkText(<< "b" >>, "ok") }
      [] id = "b" -> { MkText(<< >>, "ok"), MkText(<< "a" >>, "ok"),
                       MkText(<< "c" >>, "ok"), MkText(<< >>, "syntax") }
      [] OTHER    -> { MkText(<< >>, "ok"), MkText(<< >>, "fail"),
                       MkText(<< "a" >>, "ok") }

\* the texts the caller gives to the source it runs with its imports
RootTexts ==
    { MkText(<< >>, "ok"), MkText(<< >>, "syntax"), MkText(<< "a" >>, "ok"),
      MkText(<< "b" >>, "ok"), MkText(<< "c" >>, "ok") }

\* the sources the caller makes the root source continue
RootContinues == { << >>, << "b" >>, << "c" >> }

\* one set of visited sources that the nested calls share: every source
\* whose imports a call has parsed
VisitedShared(stack) ==
    IF stack = << >> THEN {}
    ELSE { x \in Present : imports[x].st = "ok" }

\* line 298: every call of loadImportsRecursively starts with its own,
\* empty, set of visited sources
VisitedAtEntry(stack) == {}

\* lines 299-311, inner(sourceName), in a project whose imports field for
\* sourceName is imp: what the call raises, "none" if it goes on to its loop
InnerRaises(stack, sourceName, imp) ==
    IF sourceName \in VisitedAtEntry(stack) THEN "cyclicImport"
    ELSE IF imp.st # "ok" THEN "importError"
    ELSE "none"

\* the stack after loadImportsRecursively(sourceName) is entered: a raised
\* error ends every call that awaits it
Entered(stack, sourceName, imp) ==
    IF InnerRaises(stack, sourceName, imp) # "none" THEN << >>
    ELSE Append(stack, [src |-> sourceName, pending |-> imp.ids])

\* runWithImports continues with run(sourceId) once the loading returns
AfterLoad(stack, sourceId, what) ==
    /\ lstack' = stack
    /\ raised' = what
    /\ UNCHANGED << rpc, rq, rerr, rdone >>

runWithImports(sourceId) ==
    /\ Idle
    /\ \/ NotFound("runWithImports", sourceId)
       \/ /\ sourceId \in Present
          /\ LET imp == ImportsAfterParse(imports, sourceId) IN
              /\ imports' = [imports EXCEPT ![sourceId] = imp]
              /\ AfterLoad(Entered(<< >>, sourceId, imp), sourceId,
                           InnerRaises(<< >>, sourceId, imp))
          /\ UNCHANGED << order, source, contin, result, bindings,
                          evalCount >>
          /\ UnchangedSettings
          /\ Note("runWithImports", sourceId)

\* lines 313-321: the next import is loaded, set as a source of the project
\* and its own imports are entered
loadStep(t) ==
    /\ lstack # << >>
    /\ Len(lstack) < MaxDepth
    /\ lstack[Len(lstack)].pending # << >>
    /\ LET top == lstack[Len(lstack)]
           newImportId == Head(top.pending)
           imp == ParsedImports(newImportId, t, resolver)
           rest == [lstack EXCEPT ![Len(lstack)].pending = Tail(top.pending)]
       IN /\ t \in LoadTextsOf(newImportId)
          /\ SetSourceFields(newImportId, t, imp)
          /\ AfterLoad(Entered(rest, newImportId, imp), newImportId,
                       InnerRaises(rest, newImportId, imp))
          /\ Note("load", newImportId)
    /\ UnchangedSettings

\* a call of loadImportsRecursively has loaded all its imports and returns;
\* when it is the outermost, runWithImports goes on with run(sourceId)
loadReturn ==
    /\ lstack # << >>
    /\ lstack[Len(lstack)].pending = << >>
    /\ lstack' = SubSeq(lstack, 1, Len(lstack) - 1)
    /\ IF Len(lstack) = 1
       THEN StartRunIds(getRunOrderFor(lstack[1].src))
       ELSE UNCHANGED << rpc, rq, rerr, rdone >>
    /\ raised' = "none"
    /\ UNCHANGED << order, source, contin, imports, result, bindings,
                    evalCount >>
    /\ UnchangedSettings
    /\ Note("loaded", lstack[Len(lstack)].src)

(***************************************************************************)
(* SqProject: a second call of run or runAll made before the first has     *)
(* returned.  The calls take turns at the awaits of runIds: everything one *)
(* call does between two awaits is done before the other goes on.          *)
(* ProjectItem.run evaluates the source and stores its result without      *)
(* suspending, so a call that waits at line 276 waits for a result that is *)
(* already stored.                                                         *)
(***************************************************************************)
\* the first call also gives way while the evaluation it awaits has not
\* stored its result
SuspendedOrEvaluating ==
    \/ rpc \in {"idle", "await"}
    \/ rpc = "loop" /\ last.op \in {"evalDone", "linkFail"}

\* the first call is not running: it has returned, or it waits at the await
\* of line 276 for a doLinkAndRun that has stored its result
Suspended ==
    \/ rpc = "idle"
    \/ rpc = "loop" /\ last.op \in {"evalDone", "linkFail"}

UnchangedFirst ==
    UNCHANGED << order, source, contin, resolver, environment, stdLib, rpc,
                 rq, rerr, rdone, lstack, raised, mix, call, last >>

\* the second call has dealt with the head of its list
SecondAdvance(e, op) ==
    second' = [pc |-> IF Tail(second.rq) = << >> THEN "done" ELSE "loop",
               rq |-> Tail(second.rq),
               rerr |-> e,
               note |-> [op |-> op, id |-> Head(second.rq)]]

\* run(sourceId) or runAll() is called while the first call waits
secondRun(sourceIds) ==
    /\ rpc = "loop" /\ Suspended
    /\ second.pc = "idle"
    /\ second' = [pc |-> IF sourceIds = << >> THEN "done" ELSE "loop",
                  rq |-> sourceIds,
                  rerr |-> NoErr,
                  note |-> [op |-> "run", id |-> "none"]]
    /\ UNCHANGED << imports, result, bindings, evalCount >>
    /\ UnchangedFirst

\* runIds of the second call, one turn of its loop (lines 261-276)
secondStep ==
    /\ second.pc = "loop"
    /\ LET sourceId == Head(second.rq)
           link == buildInitialBindings(sourceId)
           parsed == [imports EXCEPT
                        ![sourceId] = ImportsAfterParse(imports, sourceId)]
       IN  \/ /\ result[sourceId].st # "none"
              /\ SecondAdvance(IF result[sourceId].st = "err"
                               THEN result[sourceId].err ELSE second.rerr,
                               "cached")
              /\ UNCHANGED << imports, result, bindings, evalCount >>
           \/ /\ result[sourceId].st = "none"
              /\ second.rerr # NoErr
              /\ result' = [result EXCEPT
                              ![sourceId] = ErrResult(second.rerr)]
              /\ SecondAdvance(second.rerr, "failRun")
              /\ UNCHANGED << imports, bindings, evalCount >>
           \/ /\ result[sourceId].st = "none"
              /\ second.rerr = NoErr
              /\ ~link.ok
              /\ imports' = IF link.parsed THEN parsed ELSE imports
              /\ result' = [result EXCEPT ![sourceId] = ErrResult(link.err)]
              /\ second' = [second EXCEPT
                              !.pc = "await",
                              !.note = [op |-> "linkFail", id |-> sourceId]]
              /\ UNCHANGED << bindings, evalCount >>
           \/ /\ result[sourceId].st = "none"
              /\ second.rerr = NoErr
              /\ link.ok
              /\ evalCount[sourceId] < MaxEvals
              /\ imports' = parsed
              /\ result' = [result EXCEPT ![sourceId] = Evaluated(sourceId)]
              /\ bindings' = [bindings EXCEPT
                    ![sourceId] = IF Evaluated(sourceId).st = "ok" THEN "set"
                                  ELSE bindings[sourceId]]
              /\ evalCount' = [evalCount EXCEPT ![sourceId] = @ + 1]
              /\ second' = [second EXCEPT
                              !.pc = "await",
                              !.note = [op |-> "evalDone", id |-> sourceId]]
    /\ UnchangedFirst

\* the second call goes on after its await (lines 277-280)
secondResume ==
    /\ second.pc = "await"
    /\ Suspended
    /\ SecondAdvance(IF result[Head(second.rq)].st = "err"
                     THEN result[Head(second.rq)].err ELSE second.rerr,
                     "resumed")
    /\ UNCHANGED << imports, result, bindings, evalCount >>
    /\ UnchangedFirst

\* the second call returns
secondReturned ==
    /\ second.pc = "done"
    /\ second' = NoSecond
    /\ UNCHANGED << imports, result, bindings, evalCount >>
    /\ UnchangedFirst

(***************************************************************************)
(* The mixed-distribution builder (src/unnamed/part_000).                  *)
(*                                                                         *)
(* Probabilities are counted in units of 1/Unit.  A discrete part is the   *)
(* sequence of the masses of its points.                                   *)
(***************************************************************************)
Unit == 4

NoMixed == [some |-> FALSE, continuous |-> "none", discrete |-> << >>,
            fraction |-> [num |-> 0, den |-> 1]]

\* DistFunctor.Mixed.make
MixedMake(continuous, discrete, fraction) ==
    [some |-> TRUE, continuous |-> continuous, discrete |-> discrete,
     fraction |-> fraction]

RECURSIVE SumSeq(_)
SumSeq(ys) == IF ys = << >> THEN 0 ELSE Head(ys).num + SumSeq(Tail(ys))

\* DistFunctor.Discrete.T.Integral.sum: the masses have one denominator
IntegralSum(discrete) ==
    [num |-> SumSeq(discrete),
     den |-> IF discrete = << >> THEN 1 ELSE discrete[1].den]

\* DistFunctor.Discrete.T.scaleToIntegralSum(~intendedSum=1.0): every mass
\* is multiplied by intendedSum / sum; a sum of 0 leaves the quotient
\* without a value (den = 0)
scaleToIntegralSum(discrete) ==
    [i \in DOMAIN discrete |->
        [num |-> discrete[i].num, den |-> SumSeq(discrete)]]

\* a builder that rescales the discrete part also when a mass is given
buildRescaled(continuous, discrete, assumptions) ==
    IF assumptions.discreteProbabilityMass.some
       /\ assumptions.continuous = assumptions.discrete
    THEN MixedMake(continuous, scaleToIntegralSum(discrete),
                   assumptions.discreteProbabilityMass.r)
    ELSE NoMixed

\* a builder that takes a missing mass as a discrete fraction of 0
buildDefaultMass(continuous, discrete, assumptions) ==
    IF assumptions.discreteProbabilityMass.some
       \/ assumptions.continuous # assumptions.discrete
    THEN NoMixed
    ELSE MixedMake(continuous, discrete, [num |-> 0, den |-> 1])

\* build(~continuous, ~discrete, ~assumptions)
build(continuous, discrete, assumptions) ==
    CASE /\ assumptions.continuous = "ADDS_TO_CORRECT_PROBABILITY"
         /\ assumptions.discrete = "ADDS_TO_CORRECT_PROBABILITY"
         /\ assumptions.discreteProbabilityMass.some ->
            MixedMake(continuous, discrete,
                      assumptions.discreteProbabilityMass.r)
      [] /\ assumptions.continuous = "ADDS_TO_1"
         /\ assumptions.discrete = "ADDS_TO_1"
         /\ assumptions.discreteProbabilityMass.some ->
            MixedMake(continuous, discrete,
                      assumptions.discreteProbabilityMass.r)
      [] /\ assumptions.continuous = "ADDS_TO_1"
         /\ assumptions.discrete = "ADDS_TO_1"
         /\ ~assumptions.discreteProbabilityMass.some -> NoMixed
      [] /\ assumptions.continuous = "ADDS_TO_CORRECT_PROBABILITY"
         /\ assumptions.discrete = "ADDS_TO_1"
         /\ ~assumptions.discreteProbabilityMass.some -> NoMixed
      [] /\ assumptions.continuous = "ADDS_TO_1"
         /\ assumptions.discrete = "ADDS_TO_CORRECT_PROBABILITY"
         /\ ~assumptions.discreteProbabilityMass.some ->
            MixedMake(continuous, scaleToIntegralSum(discrete),
                      IntegralSum(discrete))
      [] OTHER -> NoMixed

(***************************************************************************)
(* The project after construction, and its operations.                     *)
(***************************************************************************)
\* no library function is called
NoLibCall == [fn |-> "none", done |-> FALSE]

\* the caller has not called the builder
MixIdle == [called |-> FALSE, continuous |-> "none", discrete |-> << >>,
            assumptions |-> [continuous |-> "ADDS_TO_1",
                             discrete |-> "ADDS_TO_1",
                             discreteProbabilityMass |->
                                [some |-> FALSE, r |-> [num |-> 0, den |-> 1]]],
            out |-> NoMixed]

\* new SqProject(options): no items, the default environment and stdLib
InitProject(res) ==
    /\ order = << >>
    /\ source = [x \in Ids |-> NoText]
    /\ contin = [x \in Ids |-> << >>]
    /\ imports = [x \in Ids |-> NoImports]
    /\ result = [x \in Ids |-> NoResult]
    /\ bindings = [x \in Ids |-> "none"]
    /\ resolver = res
    /\ second = NoSecond
    /\ environment = "defaultEnv"
    /\ stdLib = "stdLib"
    /\ rpc = "idle"
    /\ rq = << >>
    /\ rerr = NoErr
    /\ rdone = {}
    /\ lstack = << >>
    /\ raised = "none"
    /\ evalCount = [x \in Ids |-> 0]
    /\ last = NoCall

\* a project created with a resolver
Init == InitProject(TRUE) /\ mix = MixIdle /\ call = NoLibCall

\* a project created without a resolver
InitNoResolver == InitProject(FALSE) /\ mix = MixIdle /\ call = NoLibCall

\* the caller takes the outcome of the call it made
returned ==
    /\ rpc = "idle" /\ lstack = << >> /\ last # NoCall
    /\ last' = NoCall
    /\ raised' = "none"
    /\ UNCHANGED << order, source, contin, imports, result, bindings,
                    resolver, second, environment, stdLib, rpc, rq, rerr, rdone,
                    lstack, evalCount, mix, call >>

\* the calls that change the sources and run them
Next ==
    \/ \E id \in Ids : touchSource(id)
    \/ \E id \in Ids : \E t \in TextsOf(id) : setSource(id, t)
    \/ \E id \in Ids : removeSource(id)
    \/ \E id \in Ids : clean(id)
    \/ cleanAll
    \/ \E id \in Ids : \E c \in ContinuesOf(id) : setContinues(id, c)
    \/ \E id \in Ids : parseImports(id)
    \/ runAll
    \/ \E id \in Ids : run(id)
    \/ runIdsStep
    \/ runIdsResume
    \/ returned

Spec == Init /\ [][Next]_vars

SpecNoResolver == InitNoResolver /\ [][Next]_vars

\* every call of the project, the settings included
NextAll ==
    \/ \E e \in {"defaultEnv", "env2"} : setEnvironment(e)
    \/ \E v \in {"stdLib", "stdLib2"} : setStdLib(v)
    \/ \E id \in Ids : getResult(id)
    \/ Next

SpecAll == Init /\ [][NextAll]_vars

\* one source that the caller sets and runs with its imports
NextImports ==
    \/ \E t \in RootTexts : setSource("a", t)
    \/ \E continues \in RootContinues : setContinues("a", continues)
    \/ runWithImports("a")
    \/ runWithImports("b")
    \/ \E t \in UNION { LoadTextsOf(id) : id \in Ids } : loadStep(t)
    \/ loadReturn
    \/ runIdsStep
    \/ runIdsResume
    \/ returned

SpecImports == Init /\ [][NextImports]_vars

\* two calls of run or runAll that overlap
NextOverlap ==
    \/ /\ second.pc = "idle"
       /\ \/ \E id \in Ids : \E t \in TextsOf(id) : setSource(id, t)
          \/ \E id \in Ids : \E c \in ContinuesOf(id) : setContinues(id, c)
    \/ runAll
    \/ \E id \in Ids : run(id)
    \/ second.pc # "loop" /\ runIdsStep
    \/ second.pc # "loop" /\ runIdsResume
    \/ returned
    \/ secondRun(getRunOrder)
    \/ \E id \in Present : secondRun(getRunOrderFor(id))
    \/ secondStep
    \/ secondResume
    \/ secondReturned

SpecOverlap == Init /\ [][NextOverlap]_vars

\* the calls that take a sourceId, on sources that are set, run and removed
NextItems ==
    \/ \E id \in Ids : setSource(id, MkText(<< >>, "ok"))
    \/ \E id \in Ids : removeSource(id)
    \/ runAll
    \/ runIdsStep
    \/ runIdsResume
    \/ returned
    \/ \E id \in Ids : touchSource(id)
    \/ \E id \in Ids : clean(id)
    \/ \E id \in Ids : \E c \in ContinuesOf(id) : setContinues(id, c)
    \/ \E id \in Ids : parseImports(id)
    \/ \E id \in Ids : getResult(id)
    \/ \E id \in Ids : \E op \in Getters : get(op, id)
    \/ \E id \in Ids : getSource(id)

SpecItems == Init /\ [][NextItems]_vars

(***************************************************************************)
(* runWithImports on import graphs without a cycle: "a" imports "b", "c"   *)
(* or both, and "b" may import "c".  The loading of a source that has been *)
(* asked for ends: the promise of loadSource is settled.                   *)
(***************************************************************************)
AcyclicRootTexts ==
    { MkText(imp, "ok") :
        imp \in { << >>, << "b" >>, << "c" >>, << "b", "c" >>,
                  << "c", "b" >> } }

\* the texts loadSource returns: they parse, and import no source that
\* imports them
AcyclicLoadTexts ==
    { t \in LoadTextsOf("b") \cup LoadTextsOf("c") :
        t.kind # "syntax" /\ "a" \notin Range(t.imp) }

LoadProgress == (\E t \in AcyclicLoadTexts : loadStep(t)) \/ loadReturn

NextAcyclic ==
    \/ \E t \in AcyclicRootTexts : setSource("a", t)
    \/ runWithImports("a")
    \/ \E t \in AcyclicLoadTexts : loadStep(t)
    \/ loadReturn
    \/ runIdsStep
    \/ runIdsResume
    \/ returned

SpecAcyclic == Init /\ [][NextAcyclic]_vars /\ WF_vars(LoadProgress)

(***************************************************************************)
(* evaluate(sourceCode), lines 362-371: a project without a resolver, the  *)
(* source "main" (the sourceId "a" of the model), runAll() started and not *)
(* awaited, and the result and bindings read when runAll gives way.        *)
(***************************************************************************)
MaxImports == 2

\* the source codes: with up to MaxImports import statements, evaluating to
\* a value, failing at run time or not parsing
SourceCodes ==
    { MkText(imp, kind) :
        imp \in UNION { [1..n -> {"b", "c"}] : n \in 0..MaxImports },
        kind \in {"ok", "fail", "syntax"} }

NoOutcome == [result |-> NoResult, bindings |-> "none"]

InitEvaluate ==
    /\ InitProject(FALSE)
    /\ mix = MixIdle
    /\ \E sourceCode \in SourceCodes :
          call = [fn |-> "evaluate", pc |-> "created",
                  sourceCode |-> sourceCode, out |-> NoOutcome]

\* line 366: project.setSource("main", sourceCode)
evaluateSetSource ==
    /\ call.fn = "evaluate" /\ call.pc = "created"
    /\ SetSourceFields("a", call.sourceCode, NoImports)
    /\ call' = [call EXCEPT !.pc = "set"]
    /\ raised' = "none"
    /\ UNCHANGED << resolver, second, environment, stdLib, mix >>
    /\ UnchangedRun
    /\ Note("setSource", "a")

\* line 367: project.runAll() is entered
evaluateRunAll ==
    /\ call.fn = "evaluate" /\ call.pc = "set"
    /\ StartRunIds(getRunOrder)
    /\ call' = [call EXCEPT !.pc = "running"]
    /\ raised' = "none"
    /\ UNCHANGED << imports, result, bindings, evalCount, lstack >>
    /\ UNCHANGED << resolver, second, environment, stdLib, mix >>
    /\ UnchangedGraph
    /\ Note("runAll", "none")

\* what line 369 reads: getResult("main") and getBindings("main")
Outcome ==
    [result |-> getInternalResult("a"), bindings |-> bindings["a"]]

\* line 369 read as soon as runAll() has been entered
evaluateReturnAtOnce ==
    /\ call.fn = "evaluate" /\ call.pc = "running"
    /\ call' = [call EXCEPT !.pc = "returned", !.out = Outcome]
    /\ UNCHANGED << order, source, contin, imports, result, bindings,
                    resolver, second, environment, stdLib, rpc, rq, rerr,
                    rdone, lstack, raised, evalCount, mix, last >>

\* line 369: runAll() has given way at its first await, or has returned
evaluateReturn ==
    /\ call.fn = "evaluate" /\ call.pc = "running"
    /\ Suspended
    /\ call' = [call EXCEPT !.pc = "returned", !.out = Outcome]
    /\ UNCHANGED << order, source, contin, imports, result, bindings,
                    resolver, second, environment, stdLib, rpc, rq, rerr,
                    rdone, lstack, raised, evalCount, mix, last >>

NextEvaluate ==
    \/ evaluateSetSource
    \/ evaluateRunAll
    \/ runIdsStep
    \/ runIdsResume
    \/ evaluateReturn

SpecEvaluate == InitEvaluate /\ [][NextEvaluate]_vars

(***************************************************************************)
(* The builder applied to arguments drawn from small sets.                 *)
(***************************************************************************)
Assumption == {"ADDS_TO_1", "ADDS_TO_CORRECT_PROBABILITY"}
Mass(n) == [num |-> n, den |-> Unit]
MassChoices ==
    { [some |-> FALSE, r |-> [num |-> 0, den |-> 1]] }
        \cup { [some |-> TRUE, r |-> Mass(n)] : n \in {-1, 0, 2, Unit, Unit + 1} }
DiscreteParts ==
    { << >>, << Mass(0) >>, << Mass(1) >>, << Mass(Unit) >>,
      << Mass(2), Mass(2) >>, << Mass(1), Mass(3) >>, << Mass(3), Mass(3) >> }
ContinuousParts == {"uniform", "normal"}

InitBuild ==
    /\ InitProject(TRUE)
    /\ \E c \in ContinuousParts, d \in DiscreteParts,
          ac \in Assumption, ad \in Assumption, m \in MassChoices :
            mix = [called |-> FALSE, continuous |-> c, discrete |-> d,
                   assumptions |-> [continuous |-> ac, discrete |-> ad,
                                    discreteProbabilityMass |-> m],
                   out |-> NoMixed]
    /\ call = NoLibCall

applyBuild ==
    /\ ~mix.called
    /\ mix' = [mix EXCEPT
                 !.called = TRUE,
                 !.out = build(mix.continuous, mix.discrete, mix.assumptions)]
    /\ UNCHANGED << order, source, contin, imports, result, bindings,
                    resolver, second, environment, stdLib, rpc, rq, rerr, rdone,
                    lstack, raised, evalCount, last, call >>

NextBuild == applyBuild

SpecBuild == InitBuild /\ [][NextBuild]_vars

(***************************************************************************)
(* Properties of running sources.                                          *)
(***************************************************************************)
\* a step of run, runAll or of the runIds call they make
RunStep == rpc # "idle" \/ rpc' # "idle"

\* runIds is at a source that has no cached result
AtUncached == rpc = "loop" /\ result[Head(rq)].st = "none"

\* C1: a source that holds a cached result (Ok or Err) is not evaluated
\* again by run or runAll and keeps that result; a source is evaluated at
\* most once between two cleans.
C1_CachedNotRerun ==
    /\ [](\A s \in Ids : evalCount[s] <= 1)
    /\ [][RunStep =>
            \A s \in Ids : result[s].st # "none" =>
                /\ result'[s] = result[s]
                /\ evalCount'[s] = evalCount[s]]_vars

\* run has just passed over a source that it had evaluated before
C1_Witness ==
    /\ last.op = "cached"
    /\ evalCount[last.id] = 1
    /\ result[last.id].st = "ok"

\* C2: when runIds reaches a source without a cached result and a source
\* upstream of it has a failed result, the source is not evaluated and its
\* result becomes the Err of a failed upstream source.
C2_DependencyErrorPropagated ==
    [][(AtUncached /\ \E d \in Upstream(Head(rq)) : result[d].st = "err") =>
          /\ rpc' # "await"
          /\ \E d \in Upstream(Head(rq)) :
                /\ result[d].st = "err"
                /\ result'[Head(rq)] = ErrResult(result[d].err)]_vars

\* C3: a source without a cached result, none of whose upstream sources has
\* failed, is linked, and evaluated when the link succeeds; it is not failed
\* with the error of another source.
C3_IndependentSourceEvaluated ==
    [][(AtUncached /\ \A d \in Upstream(Head(rq)) : result[d].st # "err") =>
          \/ rpc' = "await"
          \/ /\ result'[Head(rq)].st = "err"
             /\ result'[Head(rq)].err.at = Head(rq)]_vars

ClearingCalls == {"clean", "cleanAll", "removeSource", "setSource"}

\* a cached result is removed or replaced by the step
ResultLost == \E s \in Ids : result[s].st # "none" /\ result'[s] # result[s]

\* C6 as stated: a cached result is removed or replaced only by clean,
\* cleanAll, removeSource or setSource.
C6_OnlyExplicitClears == [][ResultLost => last'.op \in ClearingCalls]_vars

\* C6 as amended: a cached result is removed only by clean, cleanAll,
\* removeSource, setSource, touchSource or setContinues; setEnvironment,
\* setStdLib, parseImports, the getters and the running of sources leave
\* every cached result as it is.
C6_ClearingCalls ==
    [][ResultLost =>
          last'.op \in ClearingCalls \cup {"touchSource", "setContinues"}]_vars

\* the settings were changed and a result computed before is still cached
C6_Witness ==
    /\ last.op = "setStdLib"
    /\ environment = "env2" /\ stdLib = "stdLib2"
    /\ \E s \in Ids : result[s].st = "ok"

\* what buildInitialBindings asks of the sources that sourceId depends on
LinkReady(sourceId) ==
    /\ \A c \in Range(contin[sourceId]) :
          c \in Present /\ bindings[c] # "none" /\ result[c].st = "ok"
    /\ imports[sourceId].st = "ok"
    /\ \A i \in Range(imports[sourceId].ids) :
          i \in Present /\ bindings[i] # "none"

\* C7: while a source is evaluated, every source it continues has bindings
\* and an Ok result and every source it imports has bindings; a source that
\* runIds reaches without a cached result is evaluated or failed.
C7_DependencyOrder ==
    /\ [](rpc = "await" => LinkReady(Head(rq)))
    /\ [][AtUncached =>
            (rpc' = "await" \/ result'[Head(rq)].st = "err")]_vars

\* "c" is evaluated on top of the source it continues and the one it imports
C7_Witness ==
    /\ rpc = "await" /\ Head(rq) = "c"
    /\ contin["c"] = << "a" >>
    /\ imports["c"].ids = << "b" >>

(***************************************************************************)
(* Properties of runWithImports.                                           *)
(***************************************************************************)
\* C4: on a cyclic import graph runWithImports stops with the cyclic-import
\* error when it comes back to a source whose imports it is loading, so no
\* source is entered twice by the calls that are under way.
C4_CycleDetected ==
    \A i, j \in DOMAIN lstack : i < j => lstack[i].src # lstack[j].src

\* C8 as stated: no import error is raised to the caller of run, runAll or
\* runWithImports.
C8_NeverRaises == raised \notin {"importError", "cyclicImport"}

\* C8 as amended: the running of sources raises nothing and every source it
\* reaches without a cached result is evaluated or gets a cached Err result,
\* which an evaluation always ends with; runWithImports raises when imports
\* of the source or of a loaded import do not parse, and then runs nothing
\* and stores no result.
C8_FailuresCachedOrRaised ==
    /\ [][RunStep => raised' = "none"]_vars
    /\ [][AtUncached =>
            (rpc' = "await" \/ result'[Head(rq)].st = "err")]_vars
    /\ [][rpc = "await" => result'[Head(rq)].st # "none"]_vars
    /\ [](\A s \in Present :
            result[s].st # "none" => getInternalResult(s) = result[s])
    /\ [](raised = "importError" =>
            /\ last.op \in {"runWithImports", "load"}
            /\ imports[last.id].st = "err"
            /\ rpc = "idle" /\ lstack = << >>)
    /\ [][raised' = "importError" =>
            \A s \in Ids : result'[s] \in {result[s], NoResult}]_vars

\* the imports of a source that runWithImports has loaded did not parse
C8_Witness ==
    /\ raised = "importError"
    /\ last.op = "load"
    /\ imports[last.id].err.kind = "parse"

\* C9: in a project without a resolver a source whose text has an import is
\* never evaluated, and a run that reaches it leaves it with an Err result.
C9_NoResolverImportFails ==
    \A s \in Present : source[s].imp # << >> =>
        /\ evalCount[s] = 0
        /\ ~(rpc = "await" /\ Head(rq) = s)
        /\ result[s].st # "ok"
        /\ (last.id = s /\ last.op \in {"cached", "failRun", "linkFail"})
              => result[s].st = "err"

\* the run of a source with an import has failed for want of a resolver
C9_Witness ==
    /\ ~resolver
    /\ last.op = "linkFail"
    /\ source[last.id].imp # << >>
    /\ result[last.id].err.kind = "noResolver"

(***************************************************************************)
(* Properties of the mixed-distribution builder.                           *)
(***************************************************************************)
\* the combinations of assumptions for which the builder is to yield a Mixed
YieldsMixed(assumptions) ==
    \/ /\ assumptions.continuous = "ADDS_TO_CORRECT_PROBABILITY"
       /\ assumptions.discrete = "ADDS_TO_CORRECT_PROBABILITY"
       /\ assumptions.discreteProbabilityMass.some
    \/ /\ assumptions.continuous = "ADDS_TO_1"
       /\ assumptions.discrete = "ADDS_TO_1"
       /\ assumptions.discreteProbabilityMass.some
    \/ /\ assumptions.continuous = "ADDS_TO_1"
       /\ assumptions.discrete = "ADDS_TO_CORRECT_PROBABILITY"
       /\ ~assumptions.discreteProbabilityMass.some

\* C10: the builder yields a Mixed exactly for (correct probability, correct
\* probability, mass r), (adds to 1, adds to 1, mass r) and (adds to 1,
\* correct probability, no mass), and nothing for the other combinations.
C10_BuildDecisionTable ==
    mix.called =>
        /\ mix.out.some <=> YieldsMixed(mix.assumptions)
        /\ ~mix.out.some => mix.out = NoMixed

\* the builder was called with (adds to 1, adds to 1, no mass) and has
\* yielded nothing
C10_Witness ==
    /\ mix.called
    /\ mix.assumptions.continuous = "ADDS_TO_1"
    /\ mix.assumptions.discrete = "ADDS_TO_1"
    /\ ~mix.assumptions.discreteProbabilityMass.some
    /\ mix.out = NoMixed

\* the integral sum of a discrete part is 1: its masses have a denominator
\* and their numerators add up to it
SumsToOne(discrete) ==
    /\ discrete # << >>
    /\ discrete[1].den # 0
    /\ \A i \in DOMAIN discrete : discrete[i].den = discrete[1].den
    /\ SumSeq(discrete) = discrete[1].den

\* the builder was called with (adds to 1, correct probability, no mass)
CalledToRescale ==
    /\ mix.called
    /\ mix.assumptions.continuous = "ADDS_TO_1"
    /\ mix.assumptions.discrete = "ADDS_TO_CORRECT_PROBABILITY"
    /\ ~mix.assumptions.discreteProbabilityMass.some

\* C11: for (adds to 1, correct probability, no mass) the builder yields a
\* Mixed whose fraction is the integral sum of the discrete part it was given
\* and whose discrete part has the integral sum 1, whatever the sum was.
C11_RescaledToOne ==
    CalledToRescale =>
        /\ mix.out.some
        /\ mix.out.fraction = IntegralSum(mix.discrete)
        /\ SumsToOne(mix.out.discrete)

\* the builder was called with a mass and two equal assumptions
CalledWithMass ==
    /\ mix.called
    /\ mix.assumptions.discreteProbabilityMass.some
    /\ mix.assumptions.continuous = mix.assumptions.discrete

MissingDeps(sourceId) ==
    SelectSeq(DepSeqOf([imports EXCEPT
                          ![sourceId] = ImportsAfterParse(imports, sourceId)],
                       contin, sourceId),
              LAMBDA d : d \notin Present)

\* removeSource(id) has left no cached result to the sources that depend
\* on id, directly or through others
RemoveClearsDependents ==
    [][last'.op = "removeSource" =>
          \A x \in Present : last'.id \in Upstream(x) =>
              result'[x] = NoResult /\ bindings'[x] = "none"]_vars

ContinuesOk ==
    \A s \in Present : result[s].st = "ok" =>
        \A c \in Range(contin[s]) : c \in Present /\ result[c].st = "ok"

\* C23: in every reachable state of the project a source that holds a cached
\* Ok result continues only sources that hold a cached Ok result.
C23_OkImpliesContinuesOk == ContinuesOk

(***************************************************************************)
(* Properties of overlapping runs.                                         *)
(***************************************************************************)
\* a step of either runIds call
EitherRunStep == RunStep \/ second.pc # "idle" \/ second'.pc # "idle"

\* C24: when a second run or runAll starts while the first waits at the
\* await of a source's evaluation, each source is evaluated at most once and
\* a result that is cached is not written again, whichever call gets to the
\* source first.
C24_OverlapEvaluatesOnce ==
    /\ [](\A s \in Ids : evalCount[s] <= 1)
    /\ [][EitherRunStep =>
            \A s \in Ids : result[s].st # "none" =>
                /\ result'[s] = result[s]
                /\ evalCount'[s] = evalCount[s]]_vars

\* both calls are under way: the first has evaluated a source and waits,
\* the second has evaluated the source the first visits next, which the
\* first will find cached
C24_Witness ==
    /\ rpc = "loop" /\ second.pc = "await"
    /\ second.note.op = "evalDone"
    /\ Head(rq) = second.note.id
    /\ \E s \in rdone : evalCount[s] = 1 /\ s \notin Range(second.rq)

ItemCalls ==
    {"touchSource", "clean", "setContinues", "parseImports", "getResult"}
        \cup Getters

\* C28: touchSource, clean, setContinues, getContinues, getDependencies,
\* getResult, getBindings, getImportIds and parseImports, called with a
\* sourceId that is not in the project, raise "Source <id> not found" and
\* leave the sources and every cached result as they were; getSource raises
\* nothing and finds no source: it returns undefined.
C28_UnknownSourceRaises ==
    /\ [][(last'.op \in ItemCalls /\ last'.id \notin Present) =>
            /\ raised' = "notFound"
            /\ order' = order /\ source' = source /\ contin' = contin
            /\ imports' = imports
            /\ result' = result /\ bindings' = bindings]_vars
    /\ [][(last'.op \in ItemCalls /\ last'.id \in Present) =>
            raised' = "none"]_vars
    /\ [][(last'.op = "getSource" /\ last'.id \notin Present) =>
            /\ raised' = "none"
            /\ source[last'.id] = NoText
            /\ order' = order /\ source' = source
            /\ result' = result]_vars

\* getBindings has been called with a sourceId that is not in the project
\* while another source holds a cached result
C28_Witness ==
    /\ last.op = "getBindings" /\ raised = "notFound"
    /\ last.id \notin Present
    /\ \E s \in Present : result[s].st = "ok"

(***************************************************************************)
(* Properties of loading imports.                                          *)
(***************************************************************************)
\* the sources reached from S along the parsed imports
RECURSIVE ImportsClosure(_)
ImportsClosure(S) ==
    LET N == S \cup { d \in Ids : \E x \in S : d \in Range(imports[x].ids) }
    IN IF N = S THEN S ELSE ImportsClosure(N)

\* C27: on an import graph without a cycle, one where a source is reached
\* along two import paths included, loadImportsRecursively reports no cyclic
\* import and returns, and when it has returned every source reached from
\* the root along imports is in the project with its imports parsed.
C27_AcyclicLoadTerminates ==
    /\ [](raised # "cyclicImport")
    /\ (lstack # << >>) ~> (lstack = << >>)
    /\ []((last.op = "loaded" /\ lstack = << >>) =>
            \A x \in ImportsClosure({last.id}) :
                x \in Present /\ imports[x].st = "ok")

\* "a" imports "b" and "c", "b" imports "c": the loading has returned with
\* the three sources in the project
C27_Witness ==
    /\ last.op = "loaded" /\ lstack = << >> /\ last.id = "a"
    /\ imports["a"].ids = << "b", "c" >>
    /\ imports["b"].ids = << "c" >>
    /\ Present = {"a", "b", "c"}

\* C29: every Mixed that the builder returns carries a discrete probability
\* mass fraction between 0 and 1, whatever mass is supplied and whatever the
\* discrete part is.
C29_FractionInUnitInterval ==
    (mix.called /\ mix.out.some) =>
        /\ mix.out.fraction.den > 0
        /\ 0 <= mix.out.fraction.num
        /\ mix.out.fraction.num <= mix.out.fraction.den

(***************************************************************************)
(* Library functions.  A call is drawn with its arguments in the initial   *)
(* state and applied in one step.                                          *)
(*                                                                         *)
(* A number is finite, counted in halves (h = 2 stands for 1), or NaN or   *)
(* Infinity.                                                               *)
(***************************************************************************)
MaxNum == 2

Num(h) == [k |-> "fin", h |-> h]
NaN == [k |-> "nan", h |-> 0]
Infinity == [k |-> "inf", h |-> 0]
Numbers == { Num(h) : h \in (0 - 2 * MaxNum)..(2 * MaxNum) } \cup {NaN, Infinity}

\* Number.isInteger
IsInteger(x) == x.k = "fin" /\ x.h % 2 = 0

\* x <= y on numbers: false as soon as one of them is NaN
Leq(x, y) ==
    CASE x.k = "nan" \/ y.k = "nan" -> FALSE
      [] y.k = "inf" -> TRUE
      [] x.k = "inf" -> FALSE
      [] OTHER -> x.h <= y.h

\* an optional argument or field: null / undefined, or a value
Null == [some |-> FALSE, v |-> NaN]
Some(v) == [some |-> TRUE, v |-> v]

\* the error a library function throws, and the outcome of a call
NoLibErr == [kind |-> "none", msg |-> "none"]
LibErr(kind, msg) == [kind |-> kind, msg |-> msg]
Thrown(e, nothing) == [ok |-> FALSE, err |-> e, value |-> nothing]
Returned(v) == [ok |-> TRUE, err |-> NoLibErr, value |-> v]

\* E_A_Floats.upTo(low, high) on integers: low, low + 1, ..., high
E_A_Floats_upTo(low, high) ==
    IF low.h > high.h THEN << >>
    ELSE [i \in 1..((high.h - low.h) \div 2 + 1) |-> Num(low.h + 2 * (i - 1))]

\* List.upTo without the test of high
upToLowChecked(low, high) ==
    IF ~IsInteger(low)
    THEN Thrown(LibErr("REArgumentError", "mustBeIntegers"), << >>)
    ELSE IF high.k # "fin" THEN Returned(<< low >>)
    ELSE Returned(E_A_Floats_upTo(low, Num(high.h - (high.h % 2))))

\* List.upTo: fr/list.ts, the definition of "upTo"
upTo(low, high) ==
    IF ~IsInteger(low) \/ ~IsInteger(high)
    THEN Thrown(LibErr("REArgumentError", "mustBeIntegers"), << >>)
    ELSE Returned(E_A_Floats_upTo(low, high))

InitUpTo ==
    \E low \in Numbers, high \in Numbers :
        call = [fn |-> "List.upTo", done |-> FALSE, low |-> low, high |-> high,
                out |-> Returned(<< >>)]

applyUpTo ==
    /\ call.fn = "List.upTo" /\ ~call.done
    /\ call' = [call EXCEPT !.done = TRUE, !.out = upTo(call.low, call.high)]
    /\ UNCHANGED << order, source, contin, imports, result, bindings,
                    resolver, second, environment, stdLib, rpc, rq, rerr, rdone,
                    lstack, raised, evalCount, mix, last >>

\* C13: List.upTo(low, high) for integers low <= high returns low, low + 1,
\* ..., high; when low or high is not an integer it throws an ArgumentError
\* and returns no list.
C13_UpTo ==
    (call.fn = "List.upTo" /\ call.done) =>
        LET low == call.low
            high == call.high
            list == call.out.value
        IN /\ (IsInteger(low) /\ IsInteger(high) /\ Leq(low, high)) =>
                /\ call.out.ok
                /\ Len(list) = (high.h - low.h) \div 2 + 1
                /\ list[1] = low /\ list[Len(list)] = high
                /\ \A i \in 1..(Len(list) - 1) :
                      list[i + 1] = Num(list[i].h + 2)
           /\ (~IsInteger(low) \/ ~IsInteger(high)) =>
                /\ ~call.out.ok
                /\ call.out.err.kind = "REArgumentError"
                /\ list = << >>

\* List.upTo(-1, 2) has returned the four integers from -1 to 2
C13_Witness ==
    /\ call.fn = "List.upTo" /\ call.done
    /\ call.low = Num(0 - 2) /\ call.high = Num(4)
    /\ call.out.value = << Num(0 - 2), Num(0), Num(2), Num(4) >>

\* the tickFormat strings of the model
TickFormats == {".2f", "~s"}
OptNumbers == {Null} \cup { Some(x) : x \in Numbers }
NoFormat == [some |-> FALSE, v |-> "none"]
OptTickFormats == {NoFormat} \cup { Some(f) : f \in TickFormats }

NoScale ==
    [type |-> "none", min |-> Null, max |-> Null, tickFormat |-> NoFormat]
vScale(type, min, max, tickFormat) ==
    [type |-> type, min |-> min, max |-> max, tickFormat |-> tickFormat]

\* checkMinMax(min, max): whether it throws
checkMinMax(min, max) == min.some /\ max.some /\ Leq(max.v, min.v)

\* Scale.log that refuses a negative min only
Scale_logNegative(min, max, tickFormat) ==
    IF min.some /\ Leq(min.v, Num(0)) /\ min.v # Num(0)
    THEN Thrown(LibErr("REOther", "minMustBeOverZero"), NoScale)
    ELSE IF checkMinMax(min, max)
    THEN Thrown(LibErr("REOther", "maxMustBeGreaterThanMin"), NoScale)
    ELSE Returned(vScale("log", min, max, tickFormat))

\* Scale.log({min, max, tickFormat})
Scale_log(min, max, tickFormat) ==
    IF min.some /\ Leq(min.v, Num(0))
    THEN Thrown(LibErr("REOther", "minMustBeOverZero"), NoScale)
    ELSE IF checkMinMax(min, max)
    THEN Thrown(LibErr("REOther", "maxMustBeGreaterThanMin"), NoScale)
    ELSE Returned(vScale("log", min, max, tickFormat))

InitScaleLog ==
    \E min \in OptNumbers, max \in OptNumbers, tickFormat \in OptTickFormats :
        call = [fn |-> "Scale.log", done |-> FALSE, min |-> min, max |-> max,
                tickFormat |-> tickFormat, out |-> Returned(NoScale)]

applyScaleLog ==
    /\ call.fn = "Scale.log" /\ ~call.done
    /\ call' = [call EXCEPT
                  !.done = TRUE,
                  !.out = Scale_log(call.min, call.max, call.tickFormat)]
    /\ UNCHANGED << order, source, contin, imports, result, bindings,
                    resolver, second, environment, stdLib, rpc, rq, rerr, rdone,
                    lstack, raised, evalCount, mix, last >>

\* Scale.log was called with a min that is 0 or less
LogMinNotPositive ==
    /\ call.fn = "Scale.log" /\ call.done
    /\ call.min.some /\ Leq(call.min.v, Num(0))

valueTagsTypeNames ==
    {"name", "doc", "showAs", "numberFormat", "dateFormat", "hidden",
     "notebook", "exportData", "startOpenState"}

\* the keys and values the tag records of the model are made of
TagKeys == {"name", "doc", "hidden"}
\* "undefined" is a key that is held with the value undefined
TagValues == {"v1", "v2", "undefined"}
TagRecords == UNION { [S -> TagValues] : S \in SUBSET TagKeys }

\* { ...a, ...b }: the keys of both, b's value where b has the key
Spread(a, b) ==
    [k \in DOMAIN a \cup DOMAIN b |-> IF k \in DOMAIN b THEN b[k] ELSE a[k]]

\* merge whose receiver keeps its own value for a key both have
mergeKeepingOwn(this, other) ==
    [this |-> this, out |-> Spread(other, this)]

\* ValueTags.merge(other): the receiver after the call and the new ValueTags
merge(this, other) ==
    [this |-> this, out |-> Spread(this, other)]

InitMerge ==
    \E this \in TagRecords, other \in TagRecords :
        call = [fn |-> "ValueTags.merge", done |-> FALSE, this0 |-> this,
                this |-> this, other |-> other, out |-> << >>]

applyMerge ==
    /\ call.fn = "ValueTags.merge" /\ ~call.done
    /\ call' = [call EXCEPT !.done = TRUE,
                            !.this = merge(call.this, call.other).this,
                            !.out = merge(call.this, call.other).out]
    /\ UNCHANGED << order, source, contin, imports, result, bindings,
                    resolver, second, environment, stdLib, rpc, rq, rerr, rdone,
                    lstack, raised, evalCount, mix, last >>

\* C15: merge(other) yields other's value for every key of other, the
\* receiver's value for every other key of the receiver and no further key,
\* and leaves the receiver as it was.
C15_MergeOverrides ==
    (call.fn = "ValueTags.merge" /\ call.done) =>
        /\ DOMAIN call.out = DOMAIN call.this0 \cup DOMAIN call.other
        /\ \A k \in DOMAIN call.other : call.out[k] = call.other[k]
        /\ \A k \in DOMAIN call.this0 \ DOMAIN call.other :
              call.out[k] = call.this0[k]
        /\ call.this = call.this0

\* a merge in which other has replaced one tag, added one and left one
C15_Witness ==
    /\ call.fn = "ValueTags.merge" /\ call.done
    /\ call.this0 = [k \in {"name", "doc"} |-> "v1"]
    /\ call.other = [k \in {"doc", "hidden"} |-> "v2"]
    /\ call.out["name"] = "v1" /\ call.out["doc"] = "v2"
    /\ call.out["hidden"] = "v2"

\* the strings omitUsingStringKeys is called with, at most MaxKeys at a time
MaxKeys == 2
KeyStrings == TagKeys \cup {"foo", "bar"}
KeyLists == UNION { [1..n -> KeyStrings] : n \in 0..MaxKeys }

\* convertToValueTagsTypeName(key)
convertToValueTagsTypeName(key) ==
    IF key \in valueTagsTypeNames
    THEN [ok |-> TRUE, value |-> key, err |-> NoLibErr]
    ELSE [ok |-> FALSE, value |-> "none",
          err |-> LibErr("InvalidValueTagsTypeName", key)]

\* result.mergeMany: the first Err of the results, or Ok of all the values
RECURSIVE FirstErr(_)
FirstErr(rs) ==
    IF rs = << >> THEN NoLibErr
    ELSE IF ~Head(rs).ok THEN Head(rs).err ELSE FirstErr(Tail(rs))
mergeMany(rs) ==
    IF FirstErr(rs) # NoLibErr
    THEN [ok |-> FALSE, value |-> << >>, err |-> FirstErr(rs)]
    ELSE [ok |-> TRUE, value |-> [i \in DOMAIN rs |-> rs[i].value],
          err |-> NoLibErr]

\* ValueTags.omit(keys): a copy of the record without the keys
omit(this, keys) ==
    [this |-> this, out |-> [k \in DOMAIN this \ Range(keys) |-> this[k]]]

\* omitUsingStringKeys that omits the valid keys and skips the others
omitValidKeys(this, keys) ==
    [this |-> this,
     out |-> Returned(omit(this, keys).out)]

\* ValueTags.omitUsingStringKeys(keys): fmap of omit over the merged keys
omitUsingStringKeys(this, keys) ==
    LET params == mergeMany([i \in DOMAIN keys |->
                                convertToValueTagsTypeName(keys[i])])
    IN IF params.ok
       THEN [this |-> omit(this, params.value).this,
             out |-> Returned(omit(this, params.value).out)]
       ELSE [this |-> this, out |-> Thrown(params.err, << >>)]

InitOmit ==
    \E this \in TagRecords, keys \in KeyLists :
        call = [fn |-> "ValueTags.omitUsingStringKeys", done |-> FALSE,
                this0 |-> this, this |-> this, keys |-> keys,
                out |-> Returned(<< >>)]

applyOmit ==
    /\ call.fn = "ValueTags.omitUsingStringKeys" /\ ~call.done
    /\ call' = [call EXCEPT
                  !.done = TRUE,
                  !.this = omitUsingStringKeys(call.this, call.keys).this,
                  !.out = omitUsingStringKeys(call.this, call.keys).out]
    /\ UNCHANGED << order, source, contin, imports, result, bindings,
                    resolver, second, environment, stdLib, rpc, rq, rerr, rdone,
                    lstack, raised, evalCount, mix, last >>

\* C16: omitUsingStringKeys(keys) with a key that is no tag name yields an
\* error that names such a key and no tags; with valid keys only it yields
\* the tags without exactly those keys; the receiver stays as it was.
C16_OmitAllOrNothing ==
    (call.fn = "ValueTags.omitUsingStringKeys" /\ call.done) =>
        LET invalid == Range(call.keys) \ valueTagsTypeNames IN
        /\ call.this = call.this0
        /\ invalid # {} =>
              /\ ~call.out.ok
              /\ call.out.err.msg \in invalid
              /\ call.out.value = << >>
        /\ invalid = {} =>
              /\ call.out.ok
              /\ DOMAIN call.out.value = DOMAIN call.this0 \ Range(call.keys)
              /\ \A k \in DOMAIN call.out.value :
                    call.out.value[k] = call.this0[k]

\* a call with a valid key that the receiver holds and an invalid one has
\* failed and named the invalid key
C16_Witness ==
    /\ call.fn = "ValueTags.omitUsingStringKeys" /\ call.done
    /\ call.keys = << "name", "foo" >>
    /\ "name" \in DOMAIN call.this0
    /\ call.out.err.msg = "foo"
    /\ ~call.out.ok

(***************************************************************************)
(* Linking and running one source, on the contents of the namespaces       *)
(* (index.ts buildInitialBindings, doLinkAndRun; part_008 createContext).  *)
(* A namespace is a function from the names it binds to their values; a    *)
(* value tells the namespace that made it.                                 *)
(***************************************************************************)
NsKeys == {"x", "y"}
Val(by) == [by |-> by, rec |-> << >>]
NsOf(by, S) == [k \in S |-> Val(by)]
NamespacesOf(by) == { NsOf(by, S) : S \in SUBSET NsKeys }

\* vRecord(importBindings)
vRecord(ns) == [by |-> "import", rec |-> ns]

\* the continues of the source: the bindings of each, in order
ContinuesBindings ==
    { << >> } \cup { << c1 >> : c1 \in NamespacesOf("continue1") }
        \cup { << c1, c2 >> : c1 \in NamespacesOf("continue1"),
                              c2 \in NamespacesOf("continue2") }
\* its imports: at most two, each bound to a variable of its own
ImportBindings ==
    { << >> } \cup { << [variable |-> v, bindings |-> b] >> :
                        v \in {"x", "m"}, b \in NamespacesOf("imported") }
        \cup { << [variable |-> vw[1], bindings |-> b],
                  [variable |-> vw[2], bindings |-> c] >> :
                 vw \in { << "x", "m" >>, << "m", "x" >> },
                 b \in NamespacesOf("imported"),
                 c \in NamespacesOf("imported2") }

\* NamespaceMap().merge(...namespaces): later namespaces override earlier
RECURSIVE NamespaceMerge(_)
NamespaceMerge(namespaces) ==
    IF namespaces = << >> THEN << >>
    ELSE Spread(NamespaceMerge(SubSeq(namespaces, 1, Len(namespaces) - 1)),
                namespaces[Len(namespaces)])

\* namespace.set(variable, value)
NamespaceSet(namespace, variable, value) ==
    Spread(namespace, [k \in {variable} |-> value])

RECURSIVE SetImports(_, _)
SetImports(namespace, imps) ==
    IF imps = << >> THEN namespace
    ELSE SetImports(NamespaceSet(namespace, Head(imps).variable,
                                 vRecord(Head(imps).bindings)),
                    Tail(imps))

\* a link that sets the imports first and merges the continues over them
LinkedNamespaceImportsFirst(std, continues, imps) ==
    NamespaceMerge(<< SetImports(std, imps) >> \o continues)

\* buildInitialBindings when every dependency is ready: the namespace the
\* source is evaluated in
LinkedNamespace(std, continues, imps) ==
    SetImports(NamespaceMerge(<< std >> \o continues), imps)

\* createContext: Bindings.fromNamespace(stdLib).extend(), a stack with the
\* namespace below and an empty layer for the locals above
createContext(namespace) == << namespace, << >> >>

\* a link that binds the locals of the source in the stdLib it started from
doLinkAndRunShared(std, continues, imps, locals) ==
    [stdLib |-> Spread(std, locals), continues |-> continues, imps |-> imps,
     layers |-> << Spread(LinkedNamespace(std, continues, imps), locals) >>,
     bindings |-> locals]

\* doLinkAndRun of a source that defines locals: what the project holds of
\* the stdLib and of the dependencies after it, the layers of the context at
\* the end of the evaluation, and the bindings stored for the source
doLinkAndRun(std, continues, imps, locals) ==
    LET context == createContext(LinkedNamespace(std, continues, imps))
    IN [stdLib |-> std, continues |-> continues, imps |-> imps,
        layers |-> << context[1], Spread(context[2], locals) >>,
        bindings |-> locals]

InitLink ==
    \E std \in NamespacesOf("stdLib"), continues \in ContinuesBindings,
       imps \in ImportBindings, locals \in NamespacesOf("own") :
        call = [fn |-> "doLinkAndRun", done |-> FALSE,
                stdLib0 |-> std, continues0 |-> continues, imps0 |-> imps,
                locals |-> locals,
                out |-> [stdLib |-> std, continues |-> continues,
                         imps |-> imps, layers |-> << >>,
                         bindings |-> << >>]]

applyLink ==
    /\ call.fn = "doLinkAndRun" /\ ~call.done
    /\ call' = [call EXCEPT
                  !.done = TRUE,
                  !.out = doLinkAndRun(call.stdLib0, call.continues0,
                                       call.imps0, call.locals)]
    /\ UNCHANGED << order, source, contin, imports, result, bindings,
                    resolver, second, environment, stdLib, rpc, rq, rerr, rdone,
                    lstack, raised, evalCount, mix, last >>

Last(S) == CHOOSE i \in S : \A j \in S : j <= i

\* C26: the namespace a source is evaluated in binds the names of the
\* stdLib, of the continued sources and the import variables, and nothing
\* else; an import variable is bound to the record of the import's bindings;
\* any other name is bound as in the last continue of the list that binds
\* it, and as in the stdLib when no continue binds it.
C26_InitialBindings ==
    (call.fn = "doLinkAndRun" /\ call.done) =>
        LET namespace == call.out.layers[1]
            std == call.stdLib0
            continues == call.continues0
            imps == call.imps0
            importing(k) == { i \in DOMAIN imps : imps[i].variable = k }
            binding(k) == { i \in DOMAIN continues : k \in DOMAIN continues[i] }
        IN  /\ DOMAIN namespace =
                  DOMAIN std
                    \cup UNION { DOMAIN continues[i] : i \in DOMAIN continues }
                    \cup { imps[i].variable : i \in DOMAIN imps }
            /\ \A k \in DOMAIN namespace :
                  namespace[k] =
                     IF importing(k) # {}
                     THEN vRecord(imps[Last(importing(k))].bindings)
                     ELSE IF binding(k) # {}
                     THEN continues[Last(binding(k))][k]
                     ELSE std[k]

\* the stdLib and two continued sources bind "x" and "y"; the source is
\* evaluated with the "y" of the second continue and with "x" bound to the
\* record of the source it imports as x
C26_Witness ==
    /\ call.fn = "doLinkAndRun" /\ call.done
    /\ call.stdLib0 = NsOf("stdLib", {"x", "y"})
    /\ call.continues0 =
          << NsOf("continue1", {"x", "y"}), NsOf("continue2", {"x", "y"}) >>
    /\ Len(call.imps0) = 2 /\ call.imps0[1].variable = "x"
    /\ call.out.layers[1]["y"].by = "continue2"
    /\ call.out.layers[1]["x"] = vRecord(call.imps0[1].bindings)

(***************************************************************************)
(* SqValuePath: a root and a sequence of path items.  The class is used    *)
(* and tested by the sources but not among them; contains, extend and the  *)
(* equality of items are modelled from the calls and tests of these.       *)
(***************************************************************************)
MaxPathLen == 2

PathRoots == {"bindings", "exports"}

\* SqPathItem.fromString, fromNumber, fromCalculator, fromCellAddress
fromString(str) ==
    [type |-> "string", str |-> str, num |-> 0, row |-> 0, column |-> 0]
fromNumber(num) ==
    [type |-> "number", str |-> "", num |-> num, row |-> 0, column |-> 0]
fromCalculator ==
    [type |-> "calculator", str |-> "", num |-> 0, row |-> 0, column |-> 0]
fromCellAddress(row, column) ==
    [type |-> "cellAddress", str |-> "", num |-> 0, row |-> row,
     column |-> column]

PathItems ==
    { fromString("foo"), fromString("2"), fromNumber(2), fromCalculator,
      fromCellAddress(1, 2) }
ValuePaths ==
    { [root |-> r, items |-> i] :
        r \in PathRoots,
        i \in UNION { [1..n -> PathItems] : n \in 0..MaxPathLen } }

\* SqPathItem.isEqual: the same type and the same value of that type
itemIsEqual(a, b) ==
    /\ a.type = b.type
    /\ CASE a.type = "string" -> a.str = b.str
         [] a.type = "number" -> a.num = b.num
         [] a.type = "cellAddress" -> a.row = b.row /\ a.column = b.column
         [] OTHER -> TRUE

\* contains that compares the items and not the roots
containsItems(this, smallerItem) ==
    [this |-> this,
     out |-> /\ Len(this.items) >= Len(smallerItem.items)
             /\ \A i \in 1..Len(smallerItem.items) :
                   itemIsEqual(this.items[i], smallerItem.items[i])]

\* SqValuePath.contains(smallerItem): the receiver after the call and the
\* answer
contains(this, smallerItem) ==
    [this |-> this,
     out |-> IF this.root # smallerItem.root THEN FALSE
             ELSE IF Len(this.items) < Len(smallerItem.items) THEN FALSE
             ELSE \A i \in 1..Len(smallerItem.items) :
                     itemIsEqual(this.items[i], smallerItem.items[i])]

\* SqValuePath.extend(item): the receiver after the call and the new path
extend(this, item) ==
    [this |-> this,
     out |-> [root |-> this.root, items |-> this.items \o << item >>]]

InitContains ==
    \E this \in ValuePaths, smallerItem \in ValuePaths :
        call = [fn |-> "SqValuePath.contains", done |-> FALSE,
                this0 |-> this, this |-> this, arg |-> smallerItem,
                out |-> FALSE]

applyContains ==
    /\ call.fn = "SqValuePath.contains" /\ ~call.done
    /\ call' = [call EXCEPT !.done = TRUE,
                            !.this = contains(call.this, call.arg).this,
                            !.out = contains(call.this, call.arg).out]
    /\ UNCHANGED << order, source, contin, imports, result, bindings,
                    resolver, second, environment, stdLib, rpc, rq, rerr, rdone,
                    lstack, raised, evalCount, mix, last >>

InitExtend ==
    \E this \in ValuePaths, item \in PathItems :
        call = [fn |-> "SqValuePath.extend", done |-> FALSE,
                this0 |-> this, this |-> this, arg |-> item, out |-> this]

applyExtend ==
    /\ call.fn = "SqValuePath.extend" /\ ~call.done
    /\ call' = [call EXCEPT !.done = TRUE,
                            !.this = extend(call.this, call.arg).this,
                            !.out = extend(call.this, call.arg).out]
    /\ UNCHANGED << order, source, contin, imports, result, bindings,
                    resolver, second, environment, stdLib, rpc, rq, rerr, rdone,
                    lstack, raised, evalCount, mix, last >>

\* q's items are the first items of p's
IsPrefix(q, p) == Len(q) <= Len(p) /\ SubSeq(p, 1, Len(q)) = q

\* C19: p.contains(q) holds exactly when p and q have the same root and q's
\* items are a prefix of p's, so p contains itself and the empty path of its
\* root and no longer path and no path of another root; extend(item) yields
\* a path one item longer whose last item is item; neither changes p.
C19_ContainsIsPrefix ==
    /\ (call.fn = "SqValuePath.contains" /\ call.done) =>
          /\ call.out <=> (/\ call.this0.root = call.arg.root
                           /\ IsPrefix(call.arg.items, call.this0.items))
          /\ call.arg = call.this0 => call.out
          /\ call.arg = [root |-> call.this0.root, items |-> << >>] => call.out
          /\ Len(call.arg.items) > Len(call.this0.items) => ~call.out
          /\ call.arg.root # call.this0.root => ~call.out
          /\ call.this = call.this0
    /\ (call.fn = "SqValuePath.extend" /\ call.done) =>
          /\ call.out.root = call.this0.root
          /\ Len(call.out.items) = Len(call.this0.items) + 1
          /\ call.out.items[Len(call.out.items)] = call.arg
          /\ SubSeq(call.out.items, 1, Len(call.this0.items))
                = call.this0.items
          /\ call.this = call.this0

\* a path of two items contains the path of its first item, and not the
\* path whose item is the string "2" where it has the number 2
C19_Witness ==
    /\ call.fn = "SqValuePath.contains" /\ call.done
    /\ call.this0.items = << fromNumber(2), fromString("foo") >>
    /\ call.arg.root = call.this0.root
    /\ \/ call.arg.items = << fromNumber(2) >> /\ call.out
       \/ call.arg.items = << fromString("2") >> /\ ~call.out

(***************************************************************************)
(* The generic distribution operations: run applies one operation to a     *)
(* distribution and yields a Dist, a Float or an Error; fmap applies the   *)
(* next operation to a Dist and hands an Error on.  The module of run and  *)
(* fmap is not among the sources: the conversion of a sample set to a      *)
(* point set is modelled from the specification (a minimum sample count,   *)
(* an error below it) and from the tests of run and fmap.                  *)
(***************************************************************************)
MaxSamples == 12

\* #SampleSet([0.0, 1.0, ...]) of every length
SampleSets ==
    { [type |-> "SampleSet", xs |-> [i \in 1..n |-> i - 1]] :
        n \in 0..MaxSamples }

\* the least number of samples that converts: the tests leave it anywhere
\* above the four samples that fail and up to the eleven that convert
MinSampleCounts == 5..11

DistOps == {"toPointSet", "toFloatMean", "normalize"}
OpChains == UNION { [1..n -> DistOps] : n \in 1..2 }

NoDist == [type |-> "none", xs |-> << >>]
OutDist(d) == [tag |-> "Dist", dist |-> d, float |-> 0, error |-> ""]
OutFloat(f) == [tag |-> "Float", dist |-> NoDist, float |-> f, error |-> ""]
OutError(e) == [tag |-> "Error", dist |-> NoDist, float |-> 0, error |-> e]
NoOutput == [tag |-> "none", dist |-> NoDist, float |-> 0, error |-> ""]

RECURSIVE SumFloats(_)
SumFloats(xs) == IF xs = << >> THEN 0 ELSE Head(xs) + SumFloats(Tail(xs))

Mean(xs) == IF Len(xs) = 0 THEN 0 ELSE SumFloats(xs) \div Len(xs)

\* run that converts a sample set of any length
GenericOperation_runAnyCount(minSamples, op, dist) ==
    CASE op = "toPointSet" -> OutDist([type |-> "PointSet", xs |-> dist.xs])
      [] op = "toFloatMean" -> OutFloat(Mean(dist.xs))
      [] OTHER -> OutDist(dist)

\* run(params, #fromDist(op, dist))
GenericOperation_run(minSamples, op, dist) ==
    CASE op = "toPointSet" ->
            IF dist.type = "SampleSet"
            THEN IF Len(dist.xs) < minSamples
                 THEN OutError("Converting sampleSet to pointSet failed")
                 ELSE OutDist([type |-> "PointSet", xs |-> dist.xs])
            ELSE OutDist(dist)
      [] op = "toFloatMean" -> OutFloat(Mean(dist.xs))
      [] OTHER -> OutDist(dist)

\* fmap(params, output, #fromDist(op)): the next operation on a Dist, an
\* Error handed on
fmap(minSamples, output, op) ==
    CASE output.tag = "Dist" -> GenericOperation_run(minSamples, op, output.dist)
      [] output.tag = "Error" -> output
      [] OTHER -> OutError("Expected dist, got something else")

InitToPointSet ==
    \E dist \in SampleSets, minSamples \in MinSampleCounts,
       next \in OpChains :
        call = [fn |-> "toPointSet", done |-> FALSE, ran |-> FALSE,
                minSamples |-> minSamples, dist |-> dist, next |-> next,
                first |-> NoOutput, out |-> NoOutput]

\* run(#fromDist(#toDist(#toPointSet), dist))
applyRun ==
    /\ call.fn = "toPointSet" /\ ~call.ran
    /\ call' = [call EXCEPT
                  !.ran = TRUE,
                  !.first = GenericOperation_run(call.minSamples, "toPointSet", call.dist),
                  !.out = GenericOperation_run(call.minSamples, "toPointSet", call.dist)]
    /\ UNCHANGED << order, source, contin, imports, result, bindings,
                    resolver, second, environment, stdLib, rpc, rq, rerr, rdone,
                    lstack, raised, evalCount, mix, last >>

\* |> fmap(#fromDist(op))
applyFmap ==
    /\ call.fn = "toPointSet" /\ call.ran /\ ~call.done
    /\ call' = [call EXCEPT
                  !.out = fmap(call.minSamples, call.out, Head(call.next)),
                  !.next = Tail(call.next),
                  !.done = Len(call.next) = 1]
    /\ UNCHANGED << order, source, contin, imports, result, bindings,
                    resolver, second, environment, stdLib, rpc, rq, rerr, rdone,
                    lstack, raised, evalCount, mix, last >>

ConvertFailed == OutError("Converting sampleSet to pointSet failed")

MaxListLen == 3

ListElems == 0..2
Lists == UNION { [1..n -> ListElems] : n \in 0..MaxListLen }
InitialValues == 0..1

\* step lambdas: {|acc, curr| acc + curr} and {|acc, curr| curr}
StepLambdas == {"add", "current"}
stepCall(step, acc, curr) == IF step = "add" THEN acc + curr ELSE curr

\* condition lambdas: {|acc| acc < k}, {|acc| acc is even}, and one that
\* answers with a number once acc reaches k
ConditionLambdas ==
    { [kind |-> kind, k |-> k] :
        kind \in {"lessThan", "numberFrom"}, k \in 0..(2 * MaxListLen) }
    \cup { [kind |-> "even", k |-> 0] }
conditionCall(condition, acc) ==
    CASE condition.kind = "lessThan" ->
            [type |-> "Bool", value |-> acc < condition.k]
      [] condition.kind = "even" ->
            [type |-> "Bool", value |-> acc % 2 = 0]
      [] OTHER ->
            IF acc >= condition.k THEN [type |-> "Number", value |-> TRUE]
            ELSE [type |-> "Bool", value |-> TRUE]

\* the loop of _reduceWhile from index i on, with the accumulators handed to
\* the condition so far
RECURSIVE reduceWhileLoop(_, _, _, _, _, _)
reduceWhileLoop(array, step, condition, i, acc, tested) ==
    IF i > Len(array) THEN [out |-> Returned(acc), tested |-> tested]
    ELSE LET newAcc == stepCall(step, acc, array[i])
             checkResult == conditionCall(condition, newAcc)
             seen == Append(tested, newAcc)
         IN  IF checkResult.type # "Bool"
             THEN [out |-> Thrown(LibErr("REArgumentError",
                                         "conditionShouldReturnBoolean"), 0),
                   tested |-> seen]
             ELSE IF ~checkResult.value
             THEN [out |-> Returned(acc), tested |-> seen]
             ELSE reduceWhileLoop(array, step, condition, i + 1, newAcc, seen)

\* the loop that hands back the accumulator that failed the condition
RECURSIVE reduceWhileLoopLate(_, _, _, _, _, _)
reduceWhileLoopLate(array, step, condition, i, acc, tested) ==
    IF i > Len(array) THEN [out |-> Returned(acc), tested |-> tested]
    ELSE LET newAcc == stepCall(step, acc, array[i])
             checkResult == conditionCall(condition, newAcc)
             seen == Append(tested, newAcc)
         IN  IF checkResult.type # "Bool"
             THEN [out |-> Thrown(LibErr("REArgumentError",
                                         "conditionShouldReturnBoolean"), 0),
                   tested |-> seen]
             ELSE IF ~checkResult.value
             THEN [out |-> Returned(newAcc), tested |-> seen]
             ELSE reduceWhileLoopLate(array, step, condition, i + 1, newAcc,
                                      seen)

reduceWhileLate(array, initialValue, step, condition) ==
    reduceWhileLoopLate(array, step, condition, 1, initialValue, << >>)

\* _reduceWhile(array, initialValue, step, condition, context)
reduceWhile(array, initialValue, step, condition) ==
    reduceWhileLoop(array, step, condition, 1, initialValue, << >>)

InitReduceWhile ==
    \E array \in Lists, initialValue \in InitialValues,
       step \in StepLambdas, condition \in ConditionLambdas :
        call = [fn |-> "List.reduceWhile", done |-> FALSE, array |-> array,
                initialValue |-> initialValue, step |-> step,
                condition |-> condition, out |-> Returned(0),
                tested |-> << >>]

applyReduceWhile ==
    /\ call.fn = "List.reduceWhile" /\ ~call.done
    /\ LET r == reduceWhile(call.array, call.initialValue, call.step,
                            call.condition)
       IN  call' = [call EXCEPT !.done = TRUE, !.out = r.out,
                                !.tested = r.tested]
    /\ UNCHANGED << order, source, contin, imports, result, bindings,
                    resolver, second, environment, stdLib, rpc, rq, rerr, rdone,
                    lstack, raised, evalCount, mix, last >>

\* the accumulator after the first n elements
RECURSIVE AccAfter(_, _, _, _)
AccAfter(array, initialValue, step, n) ==
    IF n = 0 THEN initialValue
    ELSE stepCall(step, AccAfter(array, initialValue, step, n - 1), array[n])

\* the length of the longest prefix whose accumulators all satisfy the
\* condition with a Bool true
PassedPrefix(array, initialValue, step, condition) ==
    CHOOSE n \in 0..Len(array) :
        /\ \A i \in 1..n :
              conditionCall(condition,
                            AccAfter(array, initialValue, step, i))
                 = [type |-> "Bool", value |-> TRUE]
        /\ n < Len(array) =>
              conditionCall(condition,
                            AccAfter(array, initialValue, step, n + 1))
                 # [type |-> "Bool", value |-> TRUE]

\* C21: List.reduceWhile returns the accumulator of the longest prefix whose
\* accumulators all satisfy the condition (the initial value when the first
\* step fails or the list is empty), hands the condition the new accumulators
\* only and never the initial value as such, and throws an ArgumentError
\* when the condition answers with a non-boolean.
C21_ReduceWhile ==
    (call.fn = "List.reduceWhile" /\ call.done) =>
        LET array == call.array
            n == PassedPrefix(array, call.initialValue, call.step,
                              call.condition)
            acc(i) == AccAfter(array, call.initialValue, call.step, i)
            failing == conditionCall(call.condition, acc(n + 1))
        IN  /\ (n = Len(array) \/ failing.type = "Bool") =>
                  call.out = Returned(acc(n))
            /\ (n < Len(array) /\ failing.type # "Bool") =>
                  /\ ~call.out.ok
                  /\ call.out.err.kind = "REArgumentError"
            /\ (array = << >> \/ n = 0) /\ call.out.ok =>
                  call.out.value = call.initialValue
            /\ Len(call.tested) = IF n < Len(array) THEN n + 1 ELSE n
            /\ \A i \in 1..Len(call.tested) : call.tested[i] = acc(i)

\* List.reduceWhile([1, 2, 2], 0, add, acc < 4) stopped at the third
\* element and returned 3; the initial value 1 under acc < 1 came back
\* although it does not satisfy the condition
C21_Witness ==
    /\ call.fn = "List.reduceWhile" /\ call.done
    /\ \/ /\ call.array = << 1, 2, 2 >> /\ call.initialValue = 0
          /\ call.step = "add"
          /\ call.condition = [kind |-> "lessThan", k |-> 4]
          /\ call.out = Returned(3)
       \/ /\ call.array = << 1 >> /\ call.initialValue = 1
          /\ call.step = "add"
          /\ call.condition = [kind |-> "lessThan", k |-> 1]
          /\ call.out = Returned(1)

(***************************************************************************)
(* The viewer's item store: the local state of the items shown, kept per   *)
(* path string.  `call` holds the store, the store before the last action  *)
(* and that action.                                                        *)
(***************************************************************************)
topLevelBindingsName == "bindings"

\* the paths of the values shown: the top-level bindings and two of its
\* children
ViewerPaths ==
    { << topLevelBindingsName >>, << topLevelBindingsName, "a" >>,
      << topLevelBindingsName, "b" >> }

\* pathAsString(path): the items of the path joined with dots
RECURSIVE pathAsString(_)
pathAsString(path) ==
    IF Len(path) = 1 THEN path[1]
    ELSE pathAsString(SubSeq(path, 1, Len(path) - 1)) \o "."
         \o path[Len(path)]

PathStrings == { pathAsString(path) : path \in ViewerPaths }

\* the local settings and the calculator states an item can have ("none"
\* is an empty settings object, an undefined calculator)
LocalSettings == { "none", "distributionChartSettings" }
CalculatorStates == { "none", "hash1" }

\* a LocalItemState
LocalItemStates ==
    [collapsed : BOOLEAN, calculator : CalculatorStates,
     settings : LocalSettings]

defaultLocalItemState ==
    [collapsed |-> FALSE, calculator |-> "none", settings |-> "none"]

\* no entry of ItemStore.state under a path string
NoItem == [stored |-> FALSE, item |-> defaultLocalItemState]
Stored(item) == [stored |-> TRUE, item |-> item]

\* new ItemStore({ beginWithVariablesCollapsed })
ItemStore(beginWithVariablesCollapsed) ==
    [k \in PathStrings |->
        IF beginWithVariablesCollapsed /\ k = topLevelBindingsName
        THEN Stored([defaultLocalItemState EXCEPT !.collapsed = TRUE])
        ELSE NoItem]

\* ItemStore.getState(path)
getState(state, path) ==
    IF state[pathAsString(path)].stored
    THEN state[pathAsString(path)].item
    ELSE defaultLocalItemState

\* state?.collapsed ?? isCollapsed
CollapsedOr(state, isCollapsed) ==
    IF "collapsed" \in DOMAIN state THEN state.collapsed ELSE isCollapsed

\* the callbacks that setInitialCollapsed and dispatch hand to setState,
\* applied to the local item state they are given
Callback(fn, localItemState) ==
    CASE fn.type = "value" -> fn.value
      [] fn.type = "toggle" ->
            [localItemState EXCEPT !.collapsed = ~localItemState.collapsed]
      [] fn.type = "collapsed" ->
            [localItemState EXCEPT !.collapsed = fn.value]
      [] fn.type = "initial" ->
            [localItemState EXCEPT
                !.collapsed = CollapsedOr(localItemState, fn.isCollapsed)]
      [] fn.type = "calculator" ->
            [localItemState EXCEPT !.calculator = fn.calculator]

\* ItemStore.setState(path, fn)
setState(state, path, fn) ==
    LET pathString == pathAsString(path)
        newSettings ==
            Callback(fn, IF state[pathString].stored
                         THEN state[pathString].item
                         ELSE defaultLocalItemState)
    IN  [state EXCEPT ![pathString] = Stored(newSettings)]

\* setInitialCollapsed(path, isCollapsed)
setInitialCollapsed(state, path, isCollapsed) ==
    setState(state, path, [type |-> "initial", isCollapsed |-> isCollapsed])

\* the children that getChildrenValues gives for a value: each has a context
\* with its path, or none
NoContext == [defined |-> FALSE, path |-> << topLevelBindingsName >>]
Children ==
    { [context |-> NoContext] } \cup
    { [context |-> [defined |-> TRUE, path |-> path]] : path \in ViewerPaths }
ChildrenValues ==
    { << >> } \cup { << c >> : c \in Children }
    \cup { << c, d >> : c \in Children, d \in Children }

\* the for loop of COLLAPSE_CHILDREN from its i-th child on
RECURSIVE collapseEach(_, _, _)
collapseEach(state, children, i) ==
    IF i > Len(children) THEN state
    ELSE collapseEach(IF children[i].context.defined
                      THEN setInitialCollapsed(state,
                                               children[i].context.path, TRUE)
                      ELSE state,
                      children, i + 1)

NoAction == [type |-> "none"]

InitViewer ==
    /\ InitProject(TRUE)
    /\ mix = MixIdle
    /\ \E beginWithVariablesCollapsed \in BOOLEAN :
          call = [fn |-> "ViewerProvider",
                  state |-> ItemStore(beginWithVariablesCollapsed),
                  before |-> ItemStore(beginWithVariablesCollapsed),
                  action |-> NoAction]

\* dispatch(action) has left the store as `state`
Dispatched(action, state) ==
    /\ call.fn = "ViewerProvider"
    /\ call' = [call EXCEPT !.state = state, !.before = call.state,
                            !.action = action]
    /\ UNCHANGED << order, source, contin, imports, result, bindings,
                    resolver, second, environment, stdLib, rpc, rq, rerr,
                    rdone, lstack, raised, evalCount, mix, last >>

\* dispatch({ type: "SET_LOCAL_ITEM_STATE", payload: { path, value } })
dispatchSetLocalItemState ==
    \E path \in ViewerPaths, value \in LocalItemStates :
        Dispatched([type |-> "SET_LOCAL_ITEM_STATE", path |-> path],
                   setState(call.state, path,
                            [type |-> "value", value |-> value]))

\* dispatch({ type: "TOGGLE_COLLAPSED", payload: path })
dispatchToggleCollapsed ==
    \E path \in ViewerPaths :
        Dispatched([type |-> "TOGGLE_COLLAPSED", path |-> path],
                   setState(call.state, path, [type |-> "toggle"]))

\* dispatch({ type: "SET_COLLAPSED", payload: { path, value } })
dispatchSetCollapsed ==
    \E path \in ViewerPaths, value \in BOOLEAN :
        Dispatched([type |-> "SET_COLLAPSED", path |-> path],
                   setState(call.state, path,
                            [type |-> "collapsed", value |-> value]))

\* dispatch({ type: "COLLAPSE_CHILDREN", payload: value })
dispatchCollapseChildren ==
    \E children \in ChildrenValues :
        Dispatched([type |-> "COLLAPSE_CHILDREN", children |-> children],
                   collapseEach(call.state, children, 1))

\* dispatch({ type: "CALCULATOR_UPDATE", payload: { path, calculator } }):
\* a calculator with the stored hash is merged into the stored one, which
\* gives the new one
dispatchCalculatorUpdate ==
    \E path \in ViewerPaths, calculator \in CalculatorStates \ { "none" } :
        Dispatched([type |-> "CALCULATOR_UPDATE", path |-> path],
                   setState(call.state, path,
                            [type |-> "calculator",
                             calculator |-> calculator]))

NextViewer ==
    \/ dispatchSetLocalItemState
    \/ dispatchToggleCollapsed
    \/ dispatchSetCollapsed
    \/ dispatchCollapseChildren
    \/ dispatchCalculatorUpdate

SpecViewer == InitViewer /\ [][NextViewer]_vars

\* C30: after COLLAPSE_CHILDREN every child with a context and no stored
\* local item state is stored as collapsed and a child with a stored state
\* keeps its flag; TOGGLE_COLLAPSED and SET_COLLAPSED on a path change
\* nothing but the collapsed flag of that path.
C30_CollapseChildren ==
    (call.fn = "ViewerProvider" /\ call.action.type # "none") =>
        LET action == call.action
        IN  /\ action.type = "COLLAPSE_CHILDREN" =>
                  \A i \in 1..Len(action.children) :
                      LET child == action.children[i]
                          k == pathAsString(child.context.path)
                      IN  child.context.defined =>
                              IF call.before[k].stored
                              THEN call.state[k].item.collapsed
                                      = call.before[k].item.collapsed
                              ELSE /\ call.state[k].stored
                                   /\ call.state[k].item.collapsed
            /\ action.type \in { "TOGGLE_COLLAPSED", "SET_COLLAPSED" } =>
                  \A k \in PathStrings :
                      IF k = pathAsString(action.path)
                      THEN /\ call.state[k].item.settings
                                  = call.before[k].item.settings
                           /\ call.state[k].item.calculator
                                  = call.before[k].item.calculator
                      ELSE call.state[k] = call.before[k]

\* the library functions, each called once with every choice of arguments
InitLib ==
    /\ InitProject(TRUE)
    /\ mix = MixIdle
    /\ \/ InitUpTo
       \/ InitScaleLog
       \/ InitMerge
       \/ InitOmit
       \/ InitLink
       \/ InitContains
       \/ InitExtend
       \/ InitToPointSet
       \/ InitReduceWhile

NextLib ==
    \/ applyUpTo
    \/ applyScaleLog
    \/ applyMerge
    \/ applyOmit
    \/ applyLink
    \/ applyContains
    \/ applyExtend
    \/ applyRun
    \/ applyFmap
    \/ applyReduceWhile

SpecLib == InitLib /\ [][NextLib]_vars

=============================================================================
